---- MODULE Spec2Model ----
(***************************************************************************)
(* A model of portland-showtimes: the aggregator of src/scrape.py          *)
(* (aggregate_showtimes), the per-theater fallback policy (scrape_theater) *)
(* and the orchestrating loop (main).                                      *)
(*                                                                         *)
(* Python strings that the code inspects character by character (titles,   *)
(* formatted dates and timestamps) are sequences of one-character strings. *)
(* Strings the code only copies or compares for equality (times, urls,     *)
(* formats, theater ids) are TLA+ strings.                                 *)
(***************************************************************************)
EXTENDS Integers, Sequences, FiniteSets, TLC

(***************************************************************************)
(* Bounds of the model.                                                    *)
(***************************************************************************)
\* Longest input list handed to aggregate_showtimes in a direct call.
MaxRecords == 2
\* Largest number of showings in the whole input of a direct call.
MaxShowings == 2
\* Number of direct calls of aggregate_showtimes made on the same input.
MaxCalls == 2
\* Longest theater list of theaters.json.
MaxTheaters == 2
\* Longest movie list one extraction strategy returns in a run of main.
MaxScraped == 2

(***************************************************************************)
(* State.                                                                  *)
(***************************************************************************)
VARIABLES
    all_movies,        \* main's all_movies / the list handed to aggregate_showtimes
    start_date,        \* the start_date argument (a datetime)
    num_days,          \* the num_days argument
    movies_by_title,   \* the local table of the latest aggregate_showtimes call
    catalogs,          \* the dicts aggregate_showtimes returned so far, one per call
    clock,             \* how many times datetime.now() was read for generated_at
    pc,                \* position of main ("call": aggregate_showtimes called directly)
    theaters,          \* the list load_theaters_config returned
    idx,               \* index in theaters of the theater being scraped
    log,               \* the strategies attempted so far, in order, with their outcome
    movies,            \* the value scrape_theater returns for the current theater
    results,           \* main's results dict
    saved,             \* the calls of save_data so far
    scraper,           \* the extractor (or tactic) whose call is followed, or None
    soup,              \* what that call is given: the page, abstracted to what the code reads of it
    extracted,         \* what that call has produced so far
    time_str,          \* the argument of parse_time / _normalize_time
    parsed             \* what the normalizer returned for it, or None before the call

vars == <<all_movies, start_date, num_days, movies_by_title, catalogs, clock,
          pc, theaters, idx, log, movies, results, saved,
          scraper, soup, extracted, time_str, parsed>>

aggVars == <<all_movies, start_date, num_days, movies_by_title, catalogs, clock>>
mainVars == <<pc, theaters, idx, log, movies, results, saved>>
extVars == <<scraper, soup, extracted, time_str, parsed>>

(***************************************************************************)
(* Python values.                                                          *)
(***************************************************************************)
\* An optional value: None is the empty tuple, a present value x is <<x>>.
None == <<>>
Some(x) == <<x>>

UpperCase == <<"A","B","C","D","E","F","G","H","I","J","K","L","M",
               "N","O","P","Q","R","S","T","U","V","W","X","Y","Z">>
LowerCase == <<"a","b","c","d","e","f","g","h","i","j","k","l","m",
               "n","o","p","q","r","s","t","u","v","w","x","y","z">>
Digits == <<"0","1","2","3","4","5","6","7","8","9">>

Range(s) == {s[i] : i \in DOMAIN s}

IndexOf(s, c) == CHOOSE i \in DOMAIN s : s[i] = c

\* ord(c): the code point of a character (ASCII letters, digits, space, "-").
Ord(c) ==
    IF c \in Range(UpperCase) THEN 64 + IndexOf(UpperCase, c)
    ELSE IF c \in Range(LowerCase) THEN 96 + IndexOf(LowerCase, c)
    ELSE IF c \in Range(Digits) THEN 47 + IndexOf(Digits, c)
    ELSE IF c = "-" THEN 45
    ELSE 32

\* str.lower() on one character: only A-Z change.
LowerChar(c) ==
    IF c \in Range(UpperCase) THEN LowerCase[IndexOf(UpperCase, c)] ELSE c

\* str.lower()
Lower(s) == [i \in DOMAIN s |-> LowerChar(s[i])]

\* Python's str < str: lexicographic on code points, a proper prefix is smaller.
RECURSIVE StrLess(_, _)
StrLess(a, b) ==
    IF b = <<>> THEN FALSE
    ELSE IF a = <<>> THEN TRUE
    ELSE IF Ord(Head(a)) # Ord(Head(b)) THEN Ord(Head(a)) < Ord(Head(b))
    ELSE StrLess(Tail(a), Tail(b))

\* The character of one decimal digit.
DigitChar(n) == Digits[n + 1]

\* '%02d' and '%04d' as characters.
Pad2(n) == <<DigitChar((n \div 10) % 10), DigitChar(n % 10)>>
Pad4(n) == Pad2((n \div 100) % 100) \o Pad2(n % 100)

\* str(n) of a natural number.
RECURSIVE IntToStr(_)
IntToStr(n) == IF n < 10 THEN <<DigitChar(n)>> ELSE IntToStr(n \div 10) \o <<DigitChar(n % 10)>>

\* A date format without zero padding ('%Y-%-m-%-d').
StrftimeUnpadded(d) ==
    IntToStr(d.year) \o <<"-">> \o IntToStr(d.month) \o <<"-">> \o IntToStr(d.day)

\* datetime.strftime('%Y-%m-%d')
Strftime(d) == Pad4(d.year) \o <<"-">> \o Pad2(d.month) \o <<"-">> \o Pad2(d.day)

\* datetime.isoformat() of a datetime whose microsecond is 0.
IsoFormat(d) ==
    Strftime(d) \o <<"T">> \o Pad2(d.hour) \o <<":">> \o Pad2(d.minute)
    \o <<":">> \o Pad2(d.second)

\* re.sub(r'[^\w\s-]', '', text): the characters slugify keeps.
SlugKeeps(c) ==
    c \in Range(LowerCase) \cup Range(UpperCase) \cup Range(Digits) \cup {"_", " ", "-"}

\* re.sub(r'[-\s]+', '-', text) followed by strip('-'), on kept characters:
\* each run of hyphens and spaces becomes one hyphen, none at either end.
RECURSIVE Hyphenate(_, _)
Hyphenate(s, pending) ==
    IF s = <<>> THEN <<>>
    ELSE IF Head(s) \in {" ", "-"} THEN Hyphenate(Tail(s), TRUE)
    ELSE (IF pending THEN <<"-">> ELSE <<>>) \o <<Head(s)>>
         \o Hyphenate(Tail(s), FALSE)

\* BaseScraper.slugify
Slugify(text) ==
    LET lowered == Lower(text)
        kept == SelectSeq(lowered, SlugKeeps)
        body == Hyphenate(kept, FALSE)
    IN  IF body # <<>> /\ Head(body) = "-" THEN Tail(body) ELSE body

\* BaseScraper.get_letterboxd_url
GetLetterboxdUrl(title, tmdb_id) ==
    IF tmdb_id # None
    THEN <<"https://letterboxd.com/tmdb/">> \o IntToStr(tmdb_id[1]) \o <<"/">>
    ELSE <<"https://letterboxd.com/film/">> \o Slugify(title) \o <<"/">>

\* The path BaseScraper.download_poster returns for a fetched poster.
PosterPath(movie_slug) == <<"posters/">> \o movie_slug \o <<".jpg">>

(***************************************************************************)
(* The inputs of aggregate_showtimes: movie records as the extractors      *)
(* build them.                                                             *)
(***************************************************************************)
\* Titles as extracted: the empty title, one movie under two casings, and a
\* second movie whose capital sorts before the first one's lower case.
Titles == { <<>>, <<"D","u","n","e">>, <<"d","u","n","e">>, <<"U","p">> }

\* Ids of theaters.json that SCRAPER_MAP registers, and one it does not.
RegisteredIds == {"cinema21", "bagdad"}
TheaterIds == RegisteredIds \cup {"moreland"}

\* theater_config['url']
TheaterUrl(theater_id) == <<"https://", theater_id, ".example/">>

\* Start dates of a run (a datetime: strftime ignores the time of day).
StartDates == { [year |-> 2024, month |-> 3, day |-> 1,
                 hour |-> 6, minute |-> 30, second |-> 0] }

\* The day after a date, inside one month.
NextDay(d) == [d EXCEPT !.day = d.day + 1]

\* Canonical times, compared only for equality.
Times == {"7:00 PM", "9:30 PM"}

\* 'format' values set by SerpAPIScraper._parse_showtimes (default 'Standard').
Formats == {"Standard", "IMAX"}

\* What search_tmdb returns: None, or the first TMDB result.
TmdbResults == { None,
                 Some([tmdb_id |-> 438631, overview |-> "A duke's son leads nomads.",
                       poster_path |-> "/d5NXSklXo0qyIYkgV94XAgMIckC.jpg"]) }

\* The showing dates a page may carry for a run starting on start.
ShowingDates(start) == { Strftime(start), Strftime(NextDay(start)) }

\* The showing dicts the extractors emit for one theater: without a date
\* (hollywood, fallback), with one (most extractors), with date and format
\* (serpapi; one evening show on the first day in either format).
Showings(theater_id, start) ==
    [time : Times, url : {TheaterUrl(theater_id)}]
    \cup [time : Times, url : {TheaterUrl(theater_id)}, date : ShowingDates(start)]
    \cup [time : {"7:00 PM"}, url : {TheaterUrl(theater_id)}, date : {Strftime(start)},
          format : Formats]

\* The movie dict every extractor builds (_build_movie_entry and its copies).
BuildMovieEntry(title, theater_id, tmdb_data, showtimes) ==
    [ title |-> title,
      description |-> IF tmdb_data # None THEN tmdb_data[1].overview ELSE "",
      poster |-> IF tmdb_data # None THEN Some(PosterPath(Slugify(title))) ELSE None,
      theater_id |-> theater_id,
      theater_url |-> TheaterUrl(theater_id),
      letterboxd_url |->
          GetLetterboxdUrl(title, IF tmdb_data # None THEN Some(tmdb_data[1].tmdb_id) ELSE None),
      showtimes |-> showtimes,
      tmdb_id |-> IF tmdb_data # None THEN Some(tmdb_data[1].tmdb_id) ELSE None ]

\* The records an extractor of a registered theater may return: any title,
\* with or without TMDB data, with at most MaxShowings showings.
Records(start) ==
    { BuildMovieEntry(t, th, td, sh) :
        t \in Titles, td \in TmdbResults,
        <<th, sh>> \in UNION { {th0} \X UNION { [1..k -> Showings(th0, start)] : k \in 0..MaxShowings }
                              : th0 \in RegisteredIds } }

\* The number of showings in a list of records.
RECURSIVE TotalShowings(_)
TotalShowings(records) ==
    IF records = <<>> THEN 0
    ELSE Len(Head(records).showtimes) + TotalShowings(Tail(records))

(***************************************************************************)
(* aggregate_showtimes.                                                    *)
(***************************************************************************)
\* The default value of movies_by_title (the lambda of the defaultdict).
DefaultMovieData(key) ==
    [ key |-> key, title |-> <<>>, description |-> "", poster |-> None,
      letterboxd_url |-> <<>>, tmdb_id |-> None, showtimes_by_date |-> <<>> ]

\* A table kept from one call to the next.
MoviesByTitleKept == movies_by_title

\* movies_by_title as the call creates it: an empty ordered mapping, kept as
\* the sequence of its values in insertion order.
NewMoviesByTitle == <<>>

\* A grouping that compares titles exactly.
TitleKeyExact(movie) == movie.title

\* title_key = movie['title'].lower()
TitleKey(movie) == Lower(movie.title)

\* "Use first occurrence for metadata": the five fields are copied while the
\* accumulated title is still empty.
SeedMetadata(movie_data, movie) ==
    IF movie_data.title = <<>>
    THEN [movie_data EXCEPT !.title = movie.title,
                            !.description = movie.description,
                            !.poster = movie.poster,
                            !.letterboxd_url = movie.letterboxd_url,
                            !.tmdb_id = movie.tmdb_id]
    ELSE movie_data

\* A date lookup that files every showing under the start date.
DateStrAlwaysStart(showtime, start) == Strftime(start)

\* showtime.get('date', start_date.strftime('%Y-%m-%d'))
DateStr(showtime, start) ==
    IF "date" \in DOMAIN showtime THEN showtime.date ELSE Strftime(start)

\* The dict appended for one showing.
ShowingEntry(showtime) == [time |-> showtime.time, url |-> showtime.url]

\* An assignment in place of the append.
AppendEntryOverwriting(entries, entry) == <<entry>>

\* list.append on the showing list of one (date, theater).
AppendEntry(entries, entry) == Append(entries, entry)

\* movie_data['showtimes_by_date'][date_str][theater_id].append(entry), the
\* two defaultdicts creating what is missing.
AddShowing(by_date, date_str, theater_id, entry) ==
    LET by_theater == IF date_str \in DOMAIN by_date THEN by_date[date_str] ELSE <<>>
        entries == IF theater_id \in DOMAIN by_theater THEN by_theater[theater_id] ELSE <<>>
        updated == [t \in DOMAIN by_theater \cup {theater_id} |->
                        IF t = theater_id THEN AppendEntry(entries, entry)
                        ELSE by_theater[t]]
    IN  [d \in DOMAIN by_date \cup {date_str} |->
            IF d = date_str THEN updated ELSE by_date[d]]

\* The inner loop over movie['showtimes'].
RECURSIVE AddShowings(_, _, _, _)
AddShowings(by_date, showtimes, theater_id, start) ==
    IF showtimes = <<>> THEN by_date
    ELSE AddShowings(
            AddShowing(by_date, DateStr(Head(showtimes), start), theater_id,
                       ShowingEntry(Head(showtimes))),
            Tail(showtimes), theater_id, start)

\* One iteration of "for movie in all_movies".
FoldMovie(table, movie, start) ==
    LET key == TitleKey(movie)
        present == \E i \in DOMAIN table : table[i].key = key
        table1 == IF present THEN table ELSE Append(table, DefaultMovieData(key))
        at == CHOOSE i \in DOMAIN table1 : table1[i].key = key
        seeded == SeedMetadata(table1[at], movie)
        filled == [seeded EXCEPT !.showtimes_by_date =
                      AddShowings(seeded.showtimes_by_date, movie.showtimes,
                                  movie.theater_id, start)]
    IN  [table1 EXCEPT ![at] = filled]

\* The loop "for movie in all_movies".
RECURSIVE FoldMovies(_, _, _)
FoldMovies(table, records, start) ==
    IF records = <<>> THEN table
    ELSE FoldMovies(FoldMovie(table, Head(records), start), Tail(records), start)

\* "Convert to final format": one output dict per value of movies_by_title.
FinalMovie(movie_data) ==
    [ title |-> movie_data.title, description |-> movie_data.description,
      poster |-> movie_data.poster, letterboxd_url |-> movie_data.letterboxd_url,
      tmdb_id |-> movie_data.tmdb_id, showtimes |-> movie_data.showtimes_by_date ]

\* A sort key that ignores case.
SortKeyLessIgnoringCase(x, y) == StrLess(Lower(x.title), Lower(y.title))

\* The key of aggregated_movies.sort, and its order.
SortKeyLess(x, y) == StrLess(x.title, y.title)

\* Insertion of x into a sorted list after every element not greater than it.
RECURSIVE InsertSorted(_, _)
InsertSorted(sorted, x) ==
    IF sorted = <<>> THEN <<x>>
    ELSE IF SortKeyLess(x, Head(sorted)) THEN <<x>> \o sorted
    ELSE <<Head(sorted)>> \o InsertSorted(Tail(sorted), x)

\* list.sort(key=...): a stable sort.
RECURSIVE SortFrom(_, _)
SortFrom(sorted, rest) ==
    IF rest = <<>> THEN sorted
    ELSE SortFrom(InsertSorted(sorted, Head(rest)), Tail(rest))

SortByTitle(aggregated_movies) == SortFrom(<<>>, aggregated_movies)

\* The returned dict.
MakeCatalog(table, start, days, now) ==
    [ generated_at |-> IsoFormat(now),
      start_date |-> Strftime(start),
      num_days |-> days,
      movies |-> SortByTitle([i \in DOMAIN table |-> FinalMovie(table[i])]) ]

\* aggregate_showtimes(all_movies, start_date, num_days), now being the value
\* datetime.now() returns at line 94.
AggregateShowtimes(records, start, days, now) ==
    MakeCatalog(FoldMovies(NewMoviesByTitle, records, start), start, days, now)

(***************************************************************************)
(* Direct calls of aggregate_showtimes on arbitrary inputs.                *)
(***************************************************************************)
\* datetime.now() at the clock's k-th reading.
Now(k) ==
    [year |-> 2024, month |-> 3, day |-> 1, hour |-> 6, minute |-> 30 + k, second |-> k]

\* num_days arguments: main's 7 and another.
NumDaysChoices == {1, 7}

\* main's results dict before the loop.
NoResults == [primary |-> 0, fallback |-> 0, failed |-> <<>>]

\* No extractor call and no normalizer call is being followed.
NoExtractorCall ==
    /\ scraper = None
    /\ soup = None
    /\ extracted = None
    /\ time_str = None
    /\ parsed = None

InitAgg ==
    /\ NoExtractorCall
    /\ start_date \in StartDates
    /\ num_days \in NumDaysChoices
    /\ \E n \in 0..MaxRecords :
         \E input \in [1..n -> Records(start_date)] :
            /\ TotalShowings(input) <= MaxShowings
            /\ all_movies = input
    /\ movies_by_title = <<>>
    /\ catalogs = <<>>
    /\ clock = 0
    /\ pc = "call"
    /\ theaters = <<>>
    /\ idx = 1
    /\ log = <<>>
    /\ movies = <<>>
    /\ results = NoResults
    /\ saved = <<>>

\* One call aggregate_showtimes(all_movies, start_date, num_days).
Aggregate ==
    /\ pc = "call"
    /\ Len(catalogs) < MaxCalls
    /\ LET table == FoldMovies(NewMoviesByTitle, all_movies, start_date)
       IN  /\ movies_by_title' = table
           /\ catalogs' = Append(catalogs,
                                 MakeCatalog(table, start_date, num_days, Now(clock)))
    /\ clock' = clock + 1
    /\ UNCHANGED <<all_movies, start_date, num_days>>
    /\ UNCHANGED mainVars
    /\ UNCHANGED extVars

NextAgg == Aggregate

SpecAgg == InitAgg /\ [][NextAgg]_vars

(***************************************************************************)
(* scrape_theater and main.                                                *)
(***************************************************************************)
\* An entry of theaters.json.
Theater(id) == [id |-> id, name |-> <<"The ", id>>, url |-> TheaterUrl(id)]

\* SCRAPER_MAP.get(theater_id) finds a scraper class.
HasPrimary(theater_id) == theater_id \in RegisteredIds

\* The theater lists theaters.json may hold: distinct ids, in any order.
TheaterLists ==
    { ids \in UNION { [1..n -> TheaterIds] : n \in 0..MaxTheaters } :
        \A i, j \in DOMAIN ids : i # j => ids[i] # ids[j] }

\* The records a strategy may extract for a theater in a run of main: two
\* titles differing only in case, one undated evening show each.
ScrapedRecords(theater_id) ==
    { BuildMovieEntry(t, theater_id, None,
                      << [time |-> "7:00 PM", url |-> TheaterUrl(theater_id)] >>) :
        t \in { <<"D","u","n","e">>, <<"d","u","n","e">> } }

\* What fetch_showtimes may return: a list of at most MaxScraped records.
FetchResults(theater_id) ==
    UNION { [1..n -> ScrapedRecords(theater_id)] : n \in 0..MaxScraped }

\* The outcome logged for a strategy that returned fetched.
OutcomeOf(raised, fetched) ==
    IF raised THEN "raised" ELSE IF fetched = <<>> THEN "empty" ELSE "movies"

\* A test that takes any list that was returned, empty or not.
SucceededUnlessRaised(raised, fetched) == ~raised

\* "if movies:" after a strategy: the strategy did not raise and its list is
\* not empty.
Succeeded(raised, fetched) == ~raised /\ fetched # <<>>

Init ==
    /\ NoExtractorCall
    /\ pc = "config"
    /\ theaters \in { [i \in DOMAIN ids |-> Theater(ids[i])] : ids \in TheaterLists }
    /\ start_date \in StartDates
    /\ num_days = 7
    /\ all_movies = <<>>
    /\ movies_by_title = <<>>
    /\ catalogs = <<>>
    /\ clock = 0
    /\ idx = 1
    /\ log = <<>>
    /\ movies = <<>>
    /\ results = NoResults
    /\ saved = <<>>

\* main, lines 176-205: the pause flag, then the configuration and the empty
\* accumulators. A paused project exits unless --force is given.
LoadConfig ==
    /\ pc = "config"
    /\ \E enabled \in BOOLEAN, force \in BOOLEAN :
          pc' = IF ~enabled /\ ~force THEN "exited" ELSE "theaters"
    /\ all_movies' = <<>>
    /\ results' = NoResults
    /\ UNCHANGED <<start_date, num_days, movies_by_title, catalogs, clock,
                   theaters, idx, log, movies, saved>>
    /\ UNCHANGED extVars

\* scrape_theater, lines 135-152: the primary strategy, when SCRAPER_MAP has
\* one, is constructed and asked; a non-empty list is returned at once.
TryPrimary ==
    /\ pc = "theaters"
    /\ idx <= Len(theaters)
    /\ LET theater_id == theaters[idx].id IN
       IF HasPrimary(theater_id)
       THEN \E raised \in BOOLEAN, fetched \in FetchResults(theater_id) :
               /\ log' = Append(log, [theater |-> theater_id, strategy |-> "primary",
                                      outcome |-> OutcomeOf(raised, fetched),
                                      fetched |-> IF raised THEN <<>> ELSE fetched])
               /\ IF Succeeded(raised, fetched)
                  THEN movies' = fetched /\ pc' = "returned"
                  ELSE movies' = <<>> /\ pc' = "fallback"
       ELSE /\ log' = log
            /\ movies' = <<>>
            /\ pc' = "fallback"
    /\ UNCHANGED <<aggVars, theaters, idx, results, saved>>
    /\ UNCHANGED extVars

\* scrape_theater, lines 154-167: the fallback strategy is constructed and
\* asked; its non-empty list is returned, otherwise the empty list.
TryFallback ==
    /\ pc = "fallback"
    /\ LET theater_id == theaters[idx].id IN
       \E raised \in BOOLEAN, fetched \in FetchResults(theater_id) :
          /\ log' = Append(log, [theater |-> theater_id, strategy |-> "fallback",
                                 outcome |-> OutcomeOf(raised, fetched),
                                 fetched |-> IF raised THEN <<>> ELSE fetched])
          /\ movies' = IF Succeeded(raised, fetched) THEN fetched ELSE <<>>
    /\ pc' = "returned"
    /\ UNCHANGED <<aggVars, theaters, idx, results, saved>>
    /\ UNCHANGED extVars

\* A failure branch that forgets the theater.
FailedWithoutName(failed, theater_name) == failed

\* main, line 222: results['failed'].append(theater_name).
FailedWith(failed, theater_name) == Append(failed, theater_name)

\* main, lines 213-222: the returned list is collected and the theater counted.
RecordResult ==
    /\ pc = "returned"
    /\ IF movies # <<>>
       THEN /\ all_movies' = all_movies \o movies
            /\ results' = IF HasPrimary(theaters[idx].id)
                          THEN [results EXCEPT !.primary = @ + 1]
                          ELSE [results EXCEPT !.fallback = @ + 1]
       ELSE /\ all_movies' = all_movies
            /\ results' = [results EXCEPT !.failed = FailedWith(@, theaters[idx].name)]
    /\ idx' = idx + 1
    /\ movies' = <<>>
    /\ pc' = "theaters"
    /\ UNCHANGED <<start_date, num_days, movies_by_title, catalogs, clock,
                   theaters, log, saved>>
    /\ UNCHANGED extVars

\* An orchestrator that has nothing to write when nothing was collected.
ShouldAggregateIfAny(collected) == collected # <<>>

\* main, line 237: "Always aggregate and save (even if empty, so the frontend
\* has valid JSON)": no condition stands before the call of line 239.
ShouldAggregate(collected) == TRUE

\* main, lines 237-241: after the loop, aggregate whatever was collected.
AggregateAll ==
    /\ pc = "theaters"
    /\ idx > Len(theaters)
    /\ ShouldAggregate(all_movies)
    /\ LET table == FoldMovies(NewMoviesByTitle, all_movies, start_date)
       IN  /\ movies_by_title' = table
           /\ catalogs' = Append(catalogs,
                                 MakeCatalog(table, start_date, num_days, Now(clock)))
    /\ clock' = clock + 1
    /\ pc' = "save"
    /\ UNCHANGED <<all_movies, start_date, num_days, theaters, idx, log, movies,
                   results, saved>>
    /\ UNCHANGED extVars

\* main, line 245: save_data(aggregated_data, theaters).
SaveData ==
    /\ pc = "save"
    /\ saved' = Append(saved, [showtimes |-> catalogs[Len(catalogs)],
                               theaters |-> theaters])
    /\ pc' = "done"
    /\ UNCHANGED <<aggVars, theaters, idx, log, movies, results>>
    /\ UNCHANGED extVars

Next ==
    \/ LoadConfig
    \/ TryPrimary
    \/ TryFallback
    \/ RecordResult
    \/ AggregateAll
    \/ SaveData

Spec == Init /\ [][Next]_vars

\* The positions main can be at.
PcValues == {"config", "exited", "theaters", "fallback", "returned", "save", "done"}

\* main has a statement left to execute: it has neither exited at line 182
\* nor returned from line 253.
Runnable ==
    \/ pc = "config"
    \/ pc = "theaters" /\ idx <= Len(theaters)
    \/ pc = "fallback"
    \/ pc = "returned"
    \/ pc = "theaters" /\ idx > Len(theaters) /\ ShouldAggregate(all_movies)
    \/ pc = "save"

\* main is one sequential program: while a statement is left, main moves on
\* (every page load and request of the extractors carries a timeout). Every
\* step of Next moves pc, so this is weak fairness of Next.
LiveSpec == Init /\ [][Next]_vars /\ WF_pc(Runnable /\ pc' \in PcValues \ {pc})

(***************************************************************************)
(* Properties of aggregate_showtimes, checked under SpecAgg.               *)
(***************************************************************************)
\* The title key of an aggregated movie.
KeyOf(m) == Lower(m.title)

\* The title keys of the input.
InputKeys == { Lower(all_movies[i].title) : i \in DOMAIN all_movies }

\* The date under which the aggregator is to file a showing.
FiledUnder(showtime) ==
    IF "date" \in DOMAIN showtime THEN showtime.date ELSE Strftime(start_date)

\* The (title key, date, theater, time) quadruples of the showings of the input.
InputShowings ==
    UNION { { <<Lower(all_movies[i].title), FiledUnder(all_movies[i].showtimes[k]),
                all_movies[i].theater_id, all_movies[i].showtimes[k].time>> :
              k \in DOMAIN all_movies[i].showtimes } :
            i \in DOMAIN all_movies }

\* The (title key, date, theater, time) quadruples of the entries of a catalog.
CatalogShowings(cat) ==
    UNION { UNION { UNION { { <<KeyOf(cat.movies[m]), d, t, cat.movies[m].showtimes[d][t][e].time>> :
                                e \in DOMAIN cat.movies[m].showtimes[d][t] } :
                            t \in DOMAIN cat.movies[m].showtimes[d] } :
                    d \in DOMAIN cat.movies[m].showtimes } :
            m \in DOMAIN cat.movies }

\* C1: in every returned catalog, for every movie, date and theater, no two
\* entries of the showing list have the same time.
C1_NoDuplicateTimes ==
    \A c \in DOMAIN catalogs : \A m \in DOMAIN catalogs[c].movies :
        LET by_date == catalogs[c].movies[m].showtimes IN
        \A d \in DOMAIN by_date : \A t \in DOMAIN by_date[d] :
            \A a, b \in DOMAIN by_date[d][t] :
                a # b => by_date[d][t][a].time # by_date[d][t][b].time

\* C2: a returned catalog holds exactly one movie per distinct lowercased
\* title of the input; every theater whose record has a showing appears in
\* the per-date mapping of the movie of that record's title key, and a movie
\* holds theaters only of records with its own title key.
C2_OneMoviePerTitleKey ==
    \A c \in DOMAIN catalogs :
        LET cat == catalogs[c] IN
        /\ { KeyOf(cat.movies[m]) : m \in DOMAIN cat.movies } = InputKeys
        /\ Len(cat.movies) = Cardinality(InputKeys)
        /\ \A i \in DOMAIN all_movies : \A k \in DOMAIN all_movies[i].showtimes :
              \E m \in DOMAIN cat.movies :
                 /\ KeyOf(cat.movies[m]) = Lower(all_movies[i].title)
                 /\ \E d \in DOMAIN cat.movies[m].showtimes :
                       all_movies[i].theater_id \in DOMAIN cat.movies[m].showtimes[d]
        /\ \A m \in DOMAIN cat.movies : \A d \in DOMAIN cat.movies[m].showtimes :
              \A t \in DOMAIN cat.movies[m].showtimes[d] :
                 \E i \in DOMAIN all_movies :
                    /\ Lower(all_movies[i].title) = KeyOf(cat.movies[m])
                    /\ all_movies[i].theater_id = t

\* C2's case: "Dune" and "dune" come from different theaters and end up in
\* one movie that holds both theaters under one date.
C2_Witness ==
    /\ Len(catalogs) > 0
    /\ Len(all_movies) = 2
    /\ all_movies[1].title = <<"D","u","n","e">>
    /\ all_movies[2].title = <<"d","u","n","e">>
    /\ all_movies[1].theater_id # all_movies[2].theater_id
    /\ Len(catalogs[1].movies) = 1
    /\ \E d \in DOMAIN catalogs[1].movies[1].showtimes :
          DOMAIN catalogs[1].movies[1].showtimes[d] = RegisteredIds

\* C3: the showings of a returned catalog, as (title key, date, theater, time),
\* are exactly those of the input, an undated showing counting under the
\* start date.
C3_NoLossNoInvention ==
    \A c \in DOMAIN catalogs : CatalogShowings(catalogs[c]) = InputShowings

\* C3's case: a record with an undated showing and one dated the next day
\* has been aggregated.
C3_Witness ==
    /\ Len(catalogs) > 0
    /\ \E i \in DOMAIN all_movies :
          /\ Len(all_movies[i].showtimes) = 2
          /\ "date" \notin DOMAIN all_movies[i].showtimes[1]
          /\ "date" \in DOMAIN all_movies[i].showtimes[2]
          /\ all_movies[i].showtimes[2].date = Strftime(NextDay(start_date))
          /\ all_movies[i].showtimes[1].time = all_movies[i].showtimes[2].time

\* The records of the input whose title key is key, by index.
GroupOf(key) == { i \in DOMAIN all_movies : Lower(all_movies[i].title) = key }

\* The least and the greatest index of a non-empty set.
FirstOf(S) == CHOOSE i \in S : \A j \in S : i <= j
LastOf(S) == CHOOSE i \in S : \A j \in S : j <= i

\* An aggregated movie carries the five metadata fields of a record.
SameMetadata(m, movie) ==
    /\ m.title = movie.title
    /\ m.description = movie.description
    /\ m.poster = movie.poster
    /\ m.letterboxd_url = movie.letterboxd_url
    /\ m.tmdb_id = movie.tmdb_id

\* The record C4 names as the source of a group's metadata: the first, unless
\* it has no tmdb_id and a later one has, then the first later one with one.
UpgradedSource(key) ==
    LET first == FirstOf(GroupOf(key))
        later == { j \in GroupOf(key) : j > first /\ all_movies[j].tmdb_id # None }
    IN  IF all_movies[first].tmdb_id = None /\ later # {}
        THEN FirstOf(later) ELSE first

\* C4 as stated: the five metadata fields of every aggregated movie are those
\* of the first record of its group, or of the first later record with a
\* tmdb_id when the first record has none.
C4_MetadataUpgraded ==
    \A c \in DOMAIN catalogs : \A m \in DOMAIN catalogs[c].movies :
        SameMetadata(catalogs[c].movies[m],
                     all_movies[UpgradedSource(KeyOf(catalogs[c].movies[m]))])

\* C4, what the code does in its place: the five metadata fields of every
\* aggregated movie are those of the first record of its group, whatever
\* tmdb_id later records have; the group of the empty title, whose title
\* never counts as seeded, carries those of its last record.
C4_MetadataOfFirstRecord ==
    \A c \in DOMAIN catalogs : \A m \in DOMAIN catalogs[c].movies :
        LET key == KeyOf(catalogs[c].movies[m]) IN
        SameMetadata(catalogs[c].movies[m],
                     all_movies[IF key # <<>> THEN FirstOf(GroupOf(key))
                                ELSE LastOf(GroupOf(key))])

\* C4's case is reached: the first record of a group has no tmdb_id, a later one of
\* another casing has one, and the aggregated movie has none.
C4_Witness ==
    /\ Len(catalogs) > 0
    /\ Len(all_movies) = 2
    /\ all_movies[1].title = <<"d","u","n","e">>
    /\ all_movies[2].title = <<"D","u","n","e">>
    /\ all_movies[1].tmdb_id = None
    /\ all_movies[2].tmdb_id # None
    /\ Len(catalogs[1].movies) = 1
    /\ catalogs[1].movies[1].tmdb_id = None

\* C5: aggregating two records in either order gives the same title keys and
\* the same set of times for every (title key, date, theater).
C5_OrderIndependent ==
    Len(all_movies) = 2 =>
        \A c \in DOMAIN catalogs :
            LET swapped == AggregateShowtimes(<<all_movies[2], all_movies[1]>>,
                                              start_date, num_days, Now(0))
            IN  /\ CatalogShowings(catalogs[c]) = CatalogShowings(swapped)
                /\ { KeyOf(catalogs[c].movies[m]) : m \in DOMAIN catalogs[c].movies }
                   = { KeyOf(swapped.movies[m]) : m \in DOMAIN swapped.movies }

\* C5's case: two records of one movie and one theater, each with one undated
\* showing at a different time, have been aggregated.
C5_Witness ==
    /\ Len(catalogs) > 0
    /\ Len(all_movies) = 2
    /\ Lower(all_movies[1].title) = Lower(all_movies[2].title)
    /\ all_movies[1].theater_id = all_movies[2].theater_id
    /\ Len(all_movies[1].showtimes) = 1
    /\ Len(all_movies[2].showtimes) = 1
    /\ DOMAIN all_movies[1].showtimes[1] = DOMAIN all_movies[2].showtimes[1]
    /\ "date" \notin DOMAIN all_movies[1].showtimes[1]
    /\ all_movies[1].showtimes[1].time # all_movies[2].showtimes[1].time

\* a <= b in code-point order: equal, or at the first place they differ a has
\* ended or has the smaller code point.
CodePointLeq(a, b) ==
    \/ a = b
    \/ \E k \in 1..Len(b) :
          /\ k <= Len(a) + 1
          /\ \A j \in 1..(k - 1) : a[j] = b[j]
          /\ (k = Len(a) + 1 \/ Ord(a[k]) < Ord(b[k]))

\* C6: the movies of every returned catalog are in ascending code-point order
\* of their titles.
C6_SortedByTitle ==
    \A c \in DOMAIN catalogs : \A i, j \in DOMAIN catalogs[c].movies :
        i < j => CodePointLeq(catalogs[c].movies[i].title, catalogs[c].movies[j].title)

\* C6's case: "dune" was given before "Up" and the catalog lists "Up" first.
C6_Witness ==
    /\ Len(catalogs) > 0
    /\ Len(all_movies) = 2
    /\ all_movies[1].title = <<"d","u","n","e">>
    /\ all_movies[2].title = <<"U","p">>
    /\ Len(catalogs[1].movies) = 2
    /\ catalogs[1].movies[1].title = <<"U","p">>

\* The number a string of decimal digits writes.
RECURSIVE DigitsValue(_)
DigitsValue(str) ==
    IF str = <<>> THEN 0
    ELSE 10 * DigitsValue(SubSeq(str, 1, Len(str) - 1)) + (IndexOf(Digits, str[Len(str)]) - 1)

\* str is the ISO form YYYY-MM-DD of the date d.
IsIsoDateOf(str, d) ==
    /\ Len(str) = 10
    /\ str[5] = "-" /\ str[8] = "-"
    /\ \A i \in {1, 2, 3, 4, 6, 7, 9, 10} : str[i] \in Range(Digits)
    /\ DigitsValue(SubSeq(str, 1, 4)) = d.year
    /\ DigitsValue(SubSeq(str, 6, 7)) = d.month
    /\ DigitsValue(SubSeq(str, 9, 10)) = d.day

\* C7: a call with an empty record list returns a catalog with no movie, the
\* ISO form of the start date, the given num_days and a non-empty generated_at.
C7_EmptyInput ==
    all_movies = <<>> =>
        \A c \in DOMAIN catalogs :
            /\ catalogs[c].movies = <<>>
            /\ IsIsoDateOf(catalogs[c].start_date, start_date)
            /\ catalogs[c].num_days = num_days
            /\ catalogs[c].generated_at # <<>>

\* C7's case: a call with no record and num_days 1 has returned.
C7_Witness ==
    /\ all_movies = <<>>
    /\ num_days = 1
    /\ Len(catalogs) > 0

\* Two catalogs agree in every field but generated_at.
SameButGeneratedAt(a, b) ==
    [a EXCEPT !.generated_at = <<>>] = [b EXCEPT !.generated_at = <<>>]

ExpectedEntry(showtime) ==
    IF "format" \in DOMAIN showtime /\ showtime.format # "Standard"
    THEN [time |-> showtime.time, url |-> showtime.url, format |-> showtime.format]
    ELSE [time |-> showtime.time, url |-> showtime.url]

\* C9 as stated: every input showing has its expected entry (with its format
\* exactly when it has one other than "Standard") in the list of its title
\* key, date and theater, and every entry of a catalog is such an entry.
C9_FormatKept ==
    \A c \in DOMAIN catalogs :
        /\ \A i \in DOMAIN all_movies : \A k \in DOMAIN all_movies[i].showtimes :
              \E m \in DOMAIN catalogs[c].movies :
                 LET by_date == catalogs[c].movies[m].showtimes
                     d == FiledUnder(all_movies[i].showtimes[k])
                     t == all_movies[i].theater_id
                 IN  /\ KeyOf(catalogs[c].movies[m]) = Lower(all_movies[i].title)
                     /\ d \in DOMAIN by_date
                     /\ t \in DOMAIN by_date[d]
                     /\ ExpectedEntry(all_movies[i].showtimes[k]) \in Range(by_date[d][t])
        /\ \A m \in DOMAIN catalogs[c].movies :
              \A d \in DOMAIN catalogs[c].movies[m].showtimes :
                 \A t \in DOMAIN catalogs[c].movies[m].showtimes[d] :
                    \A e \in Range(catalogs[c].movies[m].showtimes[d][t]) :
                       \E i \in DOMAIN all_movies : \E k \in DOMAIN all_movies[i].showtimes :
                          e = ExpectedEntry(all_movies[i].showtimes[k])

(***************************************************************************)
(* The time normalizers: BaseScraper.parse_time and                        *)
(* SerpAPIScraper._normalize_time. Time texts are sequences of characters. *)
(***************************************************************************)
\* The characters str.strip() removes and \s matches, as far as they occur.
WhiteSpace == { " " }

IsDigit(c) == c \in Range(Digits)

\* int() of a run of digits.
RECURSIVE IntOf(_)
IntOf(str) ==
    IF str = <<>> THEN 0
    ELSE 10 * IntOf(SubSeq(str, 1, Len(str) - 1)) + (IndexOf(Digits, str[Len(str)]) - 1)

IsNumber(str) == str # <<>> /\ \A i \in DOMAIN str : IsDigit(str[i])

RECURSIVE LStrip(_)
LStrip(str) ==
    IF str # <<>> /\ Head(str) \in WhiteSpace THEN LStrip(Tail(str)) ELSE str

RECURSIVE RStrip(_)
RStrip(str) ==
    IF str # <<>> /\ str[Len(str)] \in WhiteSpace
    THEN RStrip(SubSeq(str, 1, Len(str) - 1)) ELSE str

\* str.strip()
Strip(str) == RStrip(LStrip(str))

\* The longest run of digits str starts with.
RECURSIVE LeadingDigits(_)
LeadingDigits(str) ==
    IF str # <<>> /\ IsDigit(Head(str)) THEN <<Head(str)>> \o LeadingDigits(Tail(str))
    ELSE <<>>

\* strptime's %I: 1[0-2]|0[1-9]|[1-9]
MatchesI(str) == IsNumber(str) /\ Len(str) <= 2 /\ IntOf(str) \in 1..12

\* strptime's %H: 2[0-3]|[0-1]\d|\d
MatchesH(str) == IsNumber(str) /\ Len(str) <= 2 /\ IntOf(str) \in 0..23

\* strptime's %M: [0-5]\d|\d
MatchesM(str) == IsNumber(str) /\ Len(str) <= 2 /\ IntOf(str) \in 0..59

\* strptime's %p, matched ignoring case: am|pm
MatchesP(str) == Lower(str) \in { <<"a","m">>, <<"p","m">> }

\* The text before the first colon, and the text after it.
BeforeColon(str) ==
    IF \E i \in DOMAIN str : str[i] = ":"
    THEN SubSeq(str, 1, (CHOOSE i \in DOMAIN str :
                            str[i] = ":" /\ \A j \in 1..(i - 1) : str[j] # ":") - 1)
    ELSE str

AfterColon(str) == SubSeq(str, Len(BeforeColon(str)) + 2, Len(str))

\* strptime's reading of %I with %p: 12 AM is hour 0, 12 PM is hour 12.
Hour24(hour, meridiem) ==
    IF meridiem = <<"p","m">> THEN (IF hour = 12 THEN 12 ELSE hour + 12)
    ELSE (IF hour = 12 THEN 0 ELSE hour)

\* datetime.strptime(text, fmt) for the three formats of the normalizers: the
\* time parsed, or None where strptime raises ValueError. gap tells what the
\* format has between %M and %p: "none" ('%I:%M%p'), "space" ('%I:%M %p',
\* whose blank matches \s+), or "24h" ('%H:%M', no %p at all).
Strptime(text, gap) ==
    LET hour == BeforeColon(text)
        rest == AfterColon(text)
        minute == LeadingDigits(rest)
        tail == SubSeq(rest, Len(minute) + 1, Len(rest))
        between == SubSeq(tail, 1, Len(tail) - 2)
        meridiem == SubSeq(tail, Len(tail) - 1, Len(tail))
    IN  IF Len(hour) = Len(text) THEN None
        ELSE IF gap = "24h"
        THEN IF MatchesH(hour) /\ MatchesM(minute) /\ tail = <<>>
             THEN Some([hour |-> IntOf(hour), minute |-> IntOf(minute)])
             ELSE None
        ELSE IF /\ MatchesI(hour) /\ MatchesM(minute)
                /\ Len(tail) >= 2 /\ MatchesP(meridiem)
                /\ \A i \in DOMAIN between : between[i] \in WhiteSpace
                /\ (gap = "none" => between = <<>>)
                /\ (gap = "space" => between # <<>>)
             THEN Some([hour |-> Hour24(IntOf(hour), Lower(meridiem)),
                        minute |-> IntOf(minute)])
             ELSE None

\* time_obj.strftime('%I:%M %p')
Strftime12(t) ==
    Pad2(IF t.hour % 12 = 0 THEN 12 ELSE t.hour % 12) \o <<":">> \o Pad2(t.minute)
        \o (IF t.hour < 12 THEN <<" ","A","M">> ELSE <<" ","P","M">>)

\* A rendering that keeps the zero of %I.
LStripZeroKept(str) == str

\* str.lstrip('0')
RECURSIVE LStripZero(_)
LStripZero(str) ==
    IF str # <<>> /\ Head(str) = "0" THEN LStripZero(Tail(str)) ELSE str

\* The loop over the formats: the rendering of the first format that parses,
\* or unparsed when none does.
FirstFormat(text, gaps, unparsed) ==
    IF \E k \in DOMAIN gaps : Strptime(text, gaps[k]) # None
    THEN LET k == CHOOSE k \in DOMAIN gaps :
                     /\ Strptime(text, gaps[k]) # None
                     /\ \A j \in 1..(k - 1) : Strptime(text, gaps[j]) = None
         IN  LStripZero(Strftime12(Strptime(text, gaps[k])[1]))
    ELSE unparsed

\* BaseScraper.parse_time: each format is tried on time_str.strip(); the
\* original time_str is returned when none parses.
ParseTime(raw) == FirstFormat(Strip(raw), << "space", "none", "24h" >>, raw)

\* SerpAPIScraper._normalize_time: time_str is stripped first, and the
\* stripped text is what is returned when no format parses.
NormalizeTime(raw) == FirstFormat(Strip(raw), << "none", "space", "24h" >>, Strip(raw))

\* The time texts handed to the normalizers: hours, minutes, blanks and
\* meridiems as pages print them, well formed or not, and texts without a
\* clock shape.
TimeTexts ==
    { pre \o hour \o <<":">> \o minute \o gap \o suffix \o post :
        pre \in { <<>>, <<" ">> },
        hour \in { <<"0">>, <<"7">>, <<"0","7">>, <<"1","2">>, <<"1","3">>,
                   <<"1","9">>, <<"2","4">> },
        minute \in { <<"0","0">>, <<"5">>, <<"0","5">>, <<"5","9">>, <<"6","0">> },
        gap \in { <<>>, <<" ">>, <<" "," ">> },
        suffix \in { <<>>, <<"a","m">>, <<"P","M">>, <<"P","m">>, <<"x","m">> },
        post \in { <<>>, <<" ">> } }
    \cup { <<>>, <<"g","a","r","b","a","g","e">>, <<"7">>, <<"7",":">>,
           <<":","0","0">>, <<"7","p","m">>, <<" ","n","o","o","n"," ">>,
           <<"7",":","0","0",":","0","0">> }

\* The normalizer that is called.
Normalizers == { "parse_time", "_normalize_time" }

InitTime ==
    /\ scraper \in Normalizers
    /\ time_str \in TimeTexts
    /\ parsed = None
    /\ soup = None
    /\ extracted = None
    /\ start_date \in StartDates
    /\ num_days = 7
    /\ pc = "call"
    /\ idx = 1
    /\ log = <<>>
    /\ all_movies = <<>>
    /\ movies_by_title = <<>>
    /\ catalogs = <<>>
    /\ clock = 0
    /\ theaters = <<>>
    /\ movies = <<>>
    /\ results = NoResults
    /\ saved = <<>>

\* One call self.parse_time(time_str).
CallParseTime ==
    /\ pc = "call"
    /\ scraper = "parse_time"
    /\ parsed' = Some(ParseTime(time_str))
    /\ pc' = "returned"
    /\ UNCHANGED <<aggVars, theaters, idx, log, movies, results, saved,
                   scraper, soup, extracted, time_str>>

\* One call self._normalize_time(time_str).
CallNormalizeTime ==
    /\ pc = "call"
    /\ scraper = "_normalize_time"
    /\ parsed' = Some(NormalizeTime(time_str))
    /\ pc' = "returned"
    /\ UNCHANGED <<aggVars, theaters, idx, log, movies, results, saved,
                   scraper, soup, extracted, time_str>>

NextTime ==
    \/ CallParseTime
    \/ CallNormalizeTime

SpecTime == InitTime /\ [][NextTime]_vars

(***************************************************************************)
(* The structured-data tactics and their date window: Clinton's JSON-LD    *)
(* events, Laurelhurst's gbl_movies schedule, Cinemagic's showtime text.   *)
(***************************************************************************)
IsLeap(year) == (year % 4 = 0 /\ year % 100 # 0) \/ year % 400 = 0

DaysInMonth(year, month) ==
    IF month = 2 THEN (IF IsLeap(year) THEN 29 ELSE 28)
    ELSE IF month \in {4, 6, 9, 11} THEN 30 ELSE 31

\* The datetime constructor accepts this year, month and day.
ValidDate(year, month, day) ==
    month \in 1..12 /\ day \in 1..DaysInMonth(year, month)

\* d + timedelta(days=1)
DayAfter(d) ==
    IF d.day < DaysInMonth(d.year, d.month) THEN [d EXCEPT !.day = d.day + 1]
    ELSE IF d.month < 12 THEN [d EXCEPT !.month = d.month + 1, !.day = 1]
    ELSE [d EXCEPT !.year = d.year + 1, !.month = 1, !.day = 1]

\* d + timedelta(days=n)
RECURSIVE PlusDays(_, _)
PlusDays(d, n) == IF n = 0 THEN d ELSE PlusDays(DayAfter(d), n - 1)

\* a.date() < b.date()
DateBefore(a, b) ==
    \/ a.year < b.year
    \/ a.year = b.year /\ a.month < b.month
    \/ a.year = b.year /\ a.month = b.month /\ a.day < b.day

\* A window test that lets the end date in.
InWindowInclusive(event_date, start, end_date) ==
    ~DateBefore(event_date, start) /\ ~DateBefore(end_date, event_date)

\* The two tests "if event_date.date() < start_date.date(): continue" and
\* "if event_date.date() >= end_date.date(): continue".
InWindow(event_date, start, end_date) ==
    ~DateBefore(event_date, start) /\ DateBefore(event_date, end_date)

\* d.strftime('%Y%m%d')
StrftimeCompact(d) == Pad4(d.year) \o Pad2(d.month) \o Pad2(d.day)

\* datetime.fromisoformat(text) for the forms YYYY-MM-DD and
\* YYYY-MM-DDTHH:MM:SS: the datetime, or None where it raises ValueError.
FromIsoFormat(text) ==
    LET wellFormed ==
            /\ Len(text) \in {10, 19}
            /\ \A i \in DOMAIN text :
                  IF i \in {5, 8} THEN text[i] = "-"
                  ELSE IF i = 11 THEN text[i] = "T"
                  ELSE IF i \in {14, 17} THEN text[i] = ":"
                  ELSE IsDigit(text[i])
        year == IntOf(SubSeq(text, 1, 4))
        month == IntOf(SubSeq(text, 6, 7))
        day == IntOf(SubSeq(text, 9, 10))
        hour == IF Len(text) = 19 THEN IntOf(SubSeq(text, 12, 13)) ELSE 0
        minute == IF Len(text) = 19 THEN IntOf(SubSeq(text, 15, 16)) ELSE 0
        second == IF Len(text) = 19 THEN IntOf(SubSeq(text, 18, 19)) ELSE 0
    IN  IF wellFormed /\ year >= 1 /\ ValidDate(year, month, day)
           /\ hour < 24 /\ minute < 60 /\ second < 60
        THEN Some([year |-> year, month |-> month, day |-> day,
                   hour |-> hour, minute |-> minute, second |-> second])
        ELSE None

\* The month abbreviations %b matches, ignoring case.
MonthAbbreviations ==
    << <<"j","a","n">>, <<"f","e","b">>, <<"m","a","r">>, <<"a","p","r">>,
       <<"m","a","y">>, <<"j","u","n">>, <<"j","u","l">>, <<"a","u","g">>,
       <<"s","e","p">>, <<"o","c","t">>, <<"n","o","v">>, <<"d","e","c">> >>

\* datetime.strptime(f"{date_str} {year}", '%b %d %Y') for a date_str the
\* showtime pattern captured (a month abbreviation, blanks, one or two
\* digits): the datetime, or None where it raises ValueError.
StrptimeMonthDay(date_str, year) ==
    LET abbreviation == Lower(SubSeq(date_str, 1, 3))
        day_text == LStrip(SubSeq(date_str, 4, Len(date_str)))
        known == \E k \in DOMAIN MonthAbbreviations : MonthAbbreviations[k] = abbreviation
        month == CHOOSE k \in DOMAIN MonthAbbreviations : MonthAbbreviations[k] = abbreviation
    IN  IF /\ known /\ IsNumber(day_text) /\ Len(day_text) <= 2
           /\ Len(day_text) < Len(date_str) - 3
           /\ ValidDate(year, month, IntOf(day_text))
        THEN Some([year |-> year, month |-> month, day |-> IntOf(day_text),
                   hour |-> 0, minute |-> 0, second |-> 0])
        ELSE None

\* str.replace('Z', '+00:00')
RECURSIVE ReplaceZ(_)
ReplaceZ(text) ==
    IF text = <<>> THEN <<>>
    ELSE (IF Head(text) = "Z" THEN <<"+","0","0",":","0","0">> ELSE <<Head(text)>>)
         \o ReplaceZ(Tail(text))

\* datetime.fromisoformat of a text that may end in a UTC offset (+HH:MM):
\* the offset does not move the date or the wall time it is written after.
FromIsoFormatOffset(text) ==
    IF /\ Len(text) = 25
       /\ text[20] \in {"+", "-"}
       /\ text[23] = ":"
       /\ IsNumber(SubSeq(text, 21, 22)) /\ IsNumber(SubSeq(text, 24, 25))
       /\ IntOf(SubSeq(text, 21, 22)) < 24 /\ IntOf(SubSeq(text, 24, 25)) < 60
    THEN FromIsoFormat(SubSeq(text, 1, 19))
    ELSE FromIsoFormat(text)

\* Longest list of entries (events, films, schedule days, pattern matches)
\* in the structured data of one page.
MaxEntries == 2

StructuredExtractors == {"clinton", "laurelhurst", "cinemagic"}

\* The start dates of the windowed runs: before a leap day, before a new year.
WindowStarts ==
    { [year |-> 2024, month |-> 2, day |-> 27, hour |-> 6, minute |-> 30, second |-> 0],
      [year |-> 2024, month |-> 12, day |-> 29, hour |-> 0, minute |-> 0, second |-> 0] }

\* The dates the structured data of a page speaks of (year, month, day as
\* written, the last two not on the calendar), each at an evening hour.
PageDates ==
    { [year |-> ymd[1], month |-> ymd[2], day |-> ymd[3],
       hour |-> 19, minute |-> 5, second |-> 0] :
      ymd \in { <<2024, 2, 26>>, <<2024, 2, 27>>, <<2024, 2, 28>>, <<2024, 2, 29>>,
                <<2024, 3, 4>>, <<2024, 3, 5>>, <<2024, 12, 28>>, <<2024, 12, 29>>,
                <<2024, 12, 30>>, <<2025, 1, 4>>, <<2025, 1, 5>>, <<2024, 1, 4>>,
                <<2024, 2, 30>>, <<2023, 2, 29>> } }

\* The startDate texts of JSON-LD events: a date, a date and time, the same in UTC.
StartDateTexts ==
    {<<>>} \cup UNION { { Strftime(d), IsoFormat(d), IsoFormat(d) \o <<"Z">> } : d \in PageDates }

\* The events of the JSON-LD scripts of a page.
JsonldEvents ==
    [type : {"Event"}, name : {<<"D","u","n","e">>}, startDate : StartDateTexts]
    \cup [type : {"ScreeningEvent", "Organization"}, name : {<<"U","p">>, <<" ">>},
          startDate : {Strftime(d) : d \in {e \in PageDates : e.day \in {27, 29}}}]

\* The timeStr values of gbl_movies shows.
TimeStrs == { <<>>, <<"7",":","0","5","p","m">> }

\* One date of a film's schedule: the key and the shows listed under it.
ScheduleDays ==
    [date_key : {StrftimeCompact(d) : d \in PageDates} \cup {Strftime(d) : d \in WindowStarts},
     date_shows : {<<s>> : s \in TimeStrs}]

\* The films of gbl_movies: a title and a schedule keyed by distinct dates
\* (one day, or a day and the day after it), one film without a schedule and
\* one without a title.
Films ==
    { [title |-> <<"D","u","n","e">>, schedule |-> <<day>>] : day \in ScheduleDays }
    \cup { [title |-> <<"U","p">>,
            schedule |-> << [date_key |-> StrftimeCompact(d),
                             date_shows |-> << <<"7",":","0","5","p","m">> >>],
                            [date_key |-> StrftimeCompact(DayAfter(d)),
                             date_shows |-> << <<"2","1",":","3","0">>, <<>> >>] >>] :
           d \in {e \in PageDates : ValidDate(e.year, e.month, e.day)} }
    \cup { [title |-> <<"U","p">>, schedule |-> <<>>],
           [title |-> <<" ">>,
            schedule |-> << [date_key |-> <<"2","0","2","4","0","2","2","7">>,
                             date_shows |-> << <<"7",":","0","5","p","m">> >>] >>] }

\* The month abbreviation and day the showtime pattern captures for a date.
MonthDayText(d, upper, blanks) ==
    (IF upper THEN [i \in 1..3 |-> IF MonthAbbreviations[d.month][i] \in Range(LowerCase)
                                   THEN UpperCase[IndexOf(LowerCase, MonthAbbreviations[d.month][i])]
                                   ELSE MonthAbbreviations[d.month][i]]
     ELSE MonthAbbreviations[d.month])
    \o [i \in 1..blanks |-> " "] \o IntToStr(d.day)

\* The (weekday, date, time) groups of the showtime pattern's matches.
RawMatches ==
    UNION { { <<"Fri", MonthDayText(d, TRUE, 1), <<"7",":","0","5">> >>,
              <<"Sat", MonthDayText(d, FALSE, 2), <<"1","9",":","0","5">> >> } :
            d \in PageDates }
    \cup { <<"Sun", <<"D","e","c"," ","0","0">>, <<"7",":","0","5">> >>,
           <<"Sun", <<"F","e","b"," ","0","2","7">>, <<"7",":","0","5">> >> }

\* The structured data a page of the extractor may hold.
StructuredEntries(extractor) ==
    IF extractor = "clinton" THEN JsonldEvents
    ELSE IF extractor = "laurelhurst" THEN Films
    ELSE RawMatches

\* ClintonScraper._parse_jsonld over the events of the page.
RECURSIVE ParseJsonld(_, _, _)
ParseJsonld(events, start, days) ==
    IF events = <<>> THEN <<>>
    ELSE LET event == Head(events)
             rest == ParseJsonld(Tail(events), start, days)
             end_date == PlusDays(start, days)
             title == Strip(event.name)
             when == FromIsoFormatOffset(ReplaceZ(event.startDate))
         IN  IF event.type \notin {"Event", "ScreeningEvent"} THEN rest
             ELSE IF title = <<>> THEN rest
             ELSE IF event.startDate = <<>> THEN rest
             ELSE IF when = None THEN rest
             ELSE IF ~InWindow(when[1], start, end_date) THEN rest
             ELSE << [title |-> title,
                      showtimes |-> << [time |-> LStripZero(Strftime12(when[1])),
                                        url |-> TheaterUrl("clinton"),
                                        date |-> Strftime(when[1])] >>] >> \o rest

\* The target_dates set of LaurelhurstScraper.fetch_showtimes.
TargetDates(start, days) == { StrftimeCompact(PlusDays(start, i)) : i \in 0..(days - 1) }

\* The showings of one schedule (the loop over schedule.items()).
RECURSIVE ScheduleShowtimes(_, _)
ScheduleShowtimes(schedule, target_dates) ==
    IF schedule = <<>> THEN <<>>
    ELSE LET date_key == Head(schedule).date_key
             kept == SelectSeq(Head(schedule).date_shows, LAMBDA s : s # <<>>)
             rest == ScheduleShowtimes(Tail(schedule), target_dates)
         IN  IF date_key \notin target_dates THEN rest
             ELSE [i \in DOMAIN kept |->
                     [time |-> ParseTime(kept[i]),
                      url |-> TheaterUrl("laurelhurst"),
                      date |-> SubSeq(date_key, 1, 4) \o <<"-">> \o SubSeq(date_key, 5, 6)
                               \o <<"-">> \o SubSeq(date_key, 7, 8)]] \o rest

\* The loop of LaurelhurstScraper.fetch_showtimes over the films.
RECURSIVE LaurelhurstFilms(_, _)
LaurelhurstFilms(films, target_dates) ==
    IF films = <<>> THEN <<>>
    ELSE LET film == Head(films)
             showtimes == ScheduleShowtimes(film.schedule, target_dates)
             rest == LaurelhurstFilms(Tail(films), target_dates)
         IN  IF Strip(film.title) = <<>> THEN rest
             ELSE IF showtimes = <<>> THEN rest
             ELSE << [title |-> Strip(film.title), showtimes |-> showtimes] >> \o rest

\* CinemagicScraper._build_showtimes
RECURSIVE BuildShowtimes(_, _, _)
BuildShowtimes(raw_matches, start, days) ==
    IF raw_matches = <<>> THEN <<>>
    ELSE LET date_str == Head(raw_matches)[2]
             show_date == StrptimeMonthDay(date_str, start.year)
             end_date == PlusDays(start, days)
             rest == BuildShowtimes(Tail(raw_matches), start, days)
         IN  IF show_date = None THEN rest
             ELSE IF ~InWindow(show_date[1], start, end_date) THEN rest
             ELSE << [time |-> ParseTime(Head(raw_matches)[3]),
                      url |-> TheaterUrl("cinemagic"),
                      date |-> Strftime(show_date[1])] >> \o rest

InitWindow ==
    /\ scraper \in StructuredExtractors
    /\ \E n \in 1..MaxEntries : soup \in [1..n -> StructuredEntries(scraper)]
    /\ extracted = None
    /\ time_str = None
    /\ parsed = None
    /\ start_date \in WindowStarts
    /\ num_days \in NumDaysChoices
    /\ pc = "structured"
    /\ idx = 1
    /\ log = <<>>
    /\ all_movies = <<>>
    /\ movies_by_title = <<>>
    /\ catalogs = <<>>
    /\ clock = 0
    /\ theaters = <<>>
    /\ movies = <<>>
    /\ results = NoResults
    /\ saved = <<>>

\* The call self._parse_jsonld(soup, start_date, num_days).
CallParseJsonld ==
    /\ pc = "structured"
    /\ scraper = "clinton"
    /\ extracted' = ParseJsonld(soup, start_date, num_days)
    /\ pc' = "windowed"
    /\ UNCHANGED <<aggVars, theaters, idx, log, movies, results, saved,
                   scraper, soup, time_str, parsed>>

\* The gbl_movies part of LaurelhurstScraper.fetch_showtimes.
FilterSchedule ==
    /\ pc = "structured"
    /\ scraper = "laurelhurst"
    /\ extracted' = LaurelhurstFilms(soup, TargetDates(start_date, num_days))
    /\ pc' = "windowed"
    /\ UNCHANGED <<aggVars, theaters, idx, log, movies, results, saved,
                   scraper, soup, time_str, parsed>>

\* The call self._build_showtimes(all_showtimes, start_date, num_days, ticket_url).
CallBuildShowtimes ==
    /\ pc = "structured"
    /\ scraper = "cinemagic"
    /\ extracted' = BuildShowtimes(soup, start_date, num_days)
    /\ pc' = "windowed"
    /\ UNCHANGED <<aggVars, theaters, idx, log, movies, results, saved,
                   scraper, soup, time_str, parsed>>

NextWindow ==
    \/ CallParseJsonld
    \/ FilterSchedule
    \/ CallBuildShowtimes

SpecWindow == InitWindow /\ [][NextWindow]_vars

(***************************************************************************)
(* The heuristic passes over a parsed page: headings, lines of page text,  *)
(* and the time texts found near a title.                                  *)
(***************************************************************************)
\* 'See website'
SeeWebsite == <<"S","e","e"," ","w","e","b","s","i","t","e">>

\* sub in text
Contains(text, sub) ==
    \E i \in 1..(Len(text) - Len(sub) + 1) : SubSeq(text, i, i + Len(sub) - 1) = sub

\* The pattern \d{1,2}:\d{2}\s*(AM|PM|am|pm)? at the start of text (re.match),
\* or over the whole of text (an item of findall).
MatchesTimePattern(text, whole) ==
    \E h \in {1, 2}, blanks \in 0..2, suffix \in {0, 2} :
        LET n == h + 3 + blanks + suffix
        IN  /\ Len(text) >= n
            /\ whole => Len(text) = n
            /\ IsNumber(SubSeq(text, 1, h))
            /\ text[h + 1] = ":"
            /\ IsNumber(SubSeq(text, h + 2, h + 3))
            /\ \A i \in (h + 4)..(h + 3 + blanks) : text[i] \in WhiteSpace
            /\ suffix = 2 =>
                 SubSeq(text, n - 1, n) \in { <<"A","M">>, <<"P","M">>, <<"a","m">>, <<"p","m">> }

\* The phrases Cinema21Scraper._extract_from_rendered skips.
Cinema21Denylist ==
    { <<"c","i","n","e","m","a"," ","2","1">>,
      <<"n","o","w"," ","s","h","o","w","i","n","g">>,
      <<"c","o","m","i","n","g"," ","s","o","o","n">>,
      <<"s","p","e","c","i","a","l"," ","e","v","e","n","t","s">>,
      <<"s","h","o","w","t","i","m","e","s">>,
      <<"a","b","o","u","t">>,
      <<"c","o","n","t","a","c","t">>,
      <<"m","e","n","u">> }

\* The phrases CinemagicScraper.fetch_showtimes skips.
CinemagicDenylist ==
    { <<"t","h","e"," ","c","i","n","e","m","a","g","i","c"," ","t","h","e","a","t","e","r">>,
      <<"e","v","e","n","t","s">>,
      <<"a","b","o","u","t">>,
      <<"m","e","n","u">> }

\* The words that make _broad_search skip a line (re.I).
BroadSearchNoise ==
    { <<"r","u","n","n","i","n","g"," ","t","i","m","e">>,
      <<"m","i","n","u","t","e","s">>,
      <<"t","i","c","k","e","t">>,
      <<"p","r","i","c","e">>,
      <<"b","e","f","o","r","e">>,
      <<"a","f","t","e","r">>,
      <<"$">> }

\* The dict _build_movie returns, as far as the passes differ in it.
MinedMovie(title, url, showtimes) ==
    [title |-> title, theater_url |-> url, showtimes |-> showtimes]

\* The showing of a title without a time.
SentinelShowing(url, start) ==
    [time |-> SeeWebsite, url |-> url, date |-> Strftime(start)]

\* The same, without the 'date' key.
SentinelShowingUndated(url) == [time |-> SeeWebsite, url |-> url]

\* Cinema21Scraper._find_times_nearby over the pattern's matches in the parent.
RECURSIVE FindTimesNearby(_, _)
FindTimesNearby(matches, start) ==
    IF matches = <<>> THEN <<>>
    ELSE LET match == Head(matches)
             time == ParseTime(match)
             rest == FindTimesNearby(Tail(matches), start)
         IN  IF time # <<>> /\ time # match
             THEN << [time |-> time, url |-> TheaterUrl("cinema21"),
                      date |-> Strftime(start)] >> \o rest
             ELSE rest

\* Cinema21Scraper._extract_from_rendered over the headings of the page (none
\* of them inside or beside a link, so that movie_url is the theater URL).
RECURSIVE ExtractFromRendered(_, _, _)
ExtractFromRendered(headings, seen_titles, start) ==
    IF headings = <<>> THEN <<>>
    ELSE LET heading == Head(headings)
             title == heading.text
             found == FindTimesNearby(heading.near, start)
             movie_url == TheaterUrl("cinema21")
             has_context == heading.context \in {"img", "p"}
             skip == ExtractFromRendered(Tail(headings), seen_titles, start)
         IN  IF title = <<>> \/ Len(title) < 2 \/ Len(title) > 100 THEN skip
             ELSE IF Lower(title) \in seen_titles THEN skip
             ELSE IF Lower(title) \in Cinema21Denylist THEN skip
             ELSE IF found = <<>> /\ ~has_context THEN skip
             ELSE << MinedMovie(title, movie_url,
                                IF found = <<>> THEN << SentinelShowing(movie_url, start) >>
                                ELSE found) >>
                  \o ExtractFromRendered(Tail(headings), seen_titles \cup {Lower(title)}, start)

\* CinemagicScraper.fetch_showtimes on a page without ticket links: the
\* heading strategy, then one record for every entry.
CinemagicFetch(page, start, days) ==
    LET kept == SelectSeq(page.headings,
                          LAMBDA h : /\ h.text # <<>>
                                     /\ Len(h.text) > 2 /\ Len(h.text) < 80
                                     /\ Lower(h.text) \notin CinemagicDenylist)
        ticket_url == TheaterUrl("cinemagic")
        built == BuildShowtimes(page.matches, start, days)
        showtimes == IF built = <<>> THEN << SentinelShowingUndated(ticket_url) >> ELSE built
    IN  [i \in DOMAIN kept |-> MinedMovie(kept[i].text, ticket_url, showtimes)]

\* The showtime links of one Bagdad heading's parent.
RECURSIVE BagdadLinkTimes(_, _)
BagdadLinkTimes(links, start) ==
    IF links = <<>> THEN <<>>
    ELSE LET link_text == Head(links)
             rest == BagdadLinkTimes(Tail(links), start)
         IN  IF MatchesTimePattern(link_text, FALSE)
             THEN << [time |-> ParseTime(link_text), url |-> TheaterUrl("bagdad"),
                      date |-> Strftime(start)] >> \o rest
             ELSE rest

\* BagdadScraper._broad_search over the lines of the "Now Playing" section.
RECURSIVE BroadSearch(_, _)
BroadSearch(lines, start) ==
    IF lines = <<>> THEN <<>>
    ELSE LET line == Head(lines)
             rest == BroadSearch(Tail(lines), start)
         IN  IF \E word \in BroadSearchNoise : Contains(Lower(line), word) THEN rest
             ELSE IF Len(line) < 3 \/ Len(line) > 80 THEN rest
             ELSE IF line[1] \in Range(UpperCase)
             THEN << MinedMovie(line, TheaterUrl("bagdad"),
                                << SentinelShowing(TheaterUrl("bagdad"), start) >>) >> \o rest
             ELSE rest

\* BagdadScraper.fetch_showtimes after the page load: the headings followed
\* by rating or running-time text, then the broader search if they gave nothing.
BagdadFetch(page, start) ==
    LET movie_headings == SelectSeq(page.headings,
                                    LAMBDA h : h.text # <<>> /\ Len(h.text) >= 2 /\ h.rated)
        movie_url == TheaterUrl("bagdad")
        records == [i \in DOMAIN movie_headings |->
                      LET found == BagdadLinkTimes(movie_headings[i].near, start)
                      IN  MinedMovie(movie_headings[i].text, movie_url,
                                     IF found = <<>> THEN << SentinelShowing(movie_url, start) >>
                                     ELSE found)]
    IN  IF records = <<>> THEN BroadSearch(page.lines, start) ELSE records

\* ClintonScraper._parse_generic
RECURSIVE ParseGeneric(_, _)
ParseGeneric(headings, start) ==
    IF headings = <<>> THEN <<>>
    ELSE LET h == Head(headings)
             url == IF h.href # None THEN h.href[1] ELSE TheaterUrl("clinton")
             rest == ParseGeneric(Tail(headings), start)
         IN  IF h.text = <<>> \/ Len(h.text) < 3 \/ Len(h.text) > 100 THEN rest
             ELSE IF Contains(url, <<"/","e","v","e","n","t","/">>)
                     \/ Contains(url, <<"/","e","v","e","n","t","s","/">>)
             THEN << MinedMovie(h.text, url, << SentinelShowing(url, start) >>) >> \o rest
             ELSE rest

\* The showings of one Hollywood movie element.
RECURSIVE HollywoodTimes(_)
HollywoodTimes(time_texts) ==
    IF time_texts = <<>> THEN <<>>
    ELSE LET parsed_time == ParseTime(Strip(Head(time_texts)))
         IN  (IF parsed_time # <<>>
              THEN << [time |-> parsed_time, url |-> TheaterUrl("hollywood")] >>
              ELSE <<>>) \o HollywoodTimes(Tail(time_texts))

\* The loop of HollywoodScraper.fetch_showtimes over the movie elements.
RECURSIVE HollywoodMovies(_)
HollywoodMovies(elements) ==
    IF elements = <<>> THEN <<>>
    ELSE LET showtimes == HollywoodTimes(Head(elements).near)
         IN  (IF showtimes # <<>>
              THEN << MinedMovie(Strip(Head(elements).text), TheaterUrl("hollywood"), showtimes) >>
              ELSE <<>>) \o HollywoodMovies(Tail(elements))

\* The passes followed.
MiningPasses ==
    { "cinema21._extract_from_rendered", "cinemagic.fetch_showtimes",
      "bagdad.fetch_showtimes", "bagdad._broad_search",
      "clinton._parse_generic", "hollywood.fetch_showtimes" }

\* A text of n letters.
LongText(n) == [i \in 1..n |-> IF i = 1 THEN "A" ELSE "a"]

\* The texts of the headings of a page.
HeadingTexts ==
    { <<>>, <<"X">>, <<"U","p">>, <<"D","u","n","e">>, <<"D","U","N","E">>,
      <<"M","e","n","u">>, LongText(100), LongText(101) }

\* The texts found where a time is looked for.
NearTexts ==
    { <<"7",":","0","5"," ","P","M">>,
      <<"7",":","0","5","p","m">>,
      <<"1","9",":","0","5">>,
      <<"2","5",":","0","0">>,
      <<"7",":","0","5"," ","P","M"," ","B","u","y">>,
      <<"S","o","l","d"," ","o","u","t">>,
      <<" ">> }

\* The lines of the "Now Playing" section.
LineTexts ==
    { <<"D","u","n","e">>,
      <<"D","U","N","E">>,
      <<"d","u","n","e">>,
      <<"U","p">>,
      <<"T","i","c","k","e","t","s">>,
      <<"M","e","n","u">> }

\* What the parent of a heading holds besides it.
Contexts == {"none", "img", "p"}

\* A heading as the passes see it: its text, the time texts near it, the
\* context in its parent, whether rating text follows it, its link.
Heading(text, near, context, rated, href) ==
    [text |-> text, near |-> near, context |-> context, rated |-> rated, href |-> href]

\* The headings (or movie elements) a page offers to a pass.
HeadingsFor(pass) ==
    IF pass = "cinema21._extract_from_rendered"
    THEN { Heading(text, near, context, FALSE, None) :
           text \in HeadingTexts, context \in Contexts,
           near \in {<<>>} \cup { <<t>> : t \in {n \in NearTexts : MatchesTimePattern(n, TRUE)} } }
    ELSE IF pass = "cinemagic.fetch_showtimes"
    THEN { Heading(text, <<>>, context, FALSE, None) :
           text \in HeadingTexts, context \in Contexts }
    ELSE IF pass = "bagdad.fetch_showtimes"
    THEN { Heading(text, near, context, rated, None) :
           text \in { <<"X">>, <<"D","u","n","e">>, LongText(101) },
           context \in {"none", "p"}, rated \in BOOLEAN,
           near \in {<<>>} \cup { <<t>> : t \in NearTexts } }
    ELSE IF pass = "clinton._parse_generic"
    THEN { Heading(text, <<>>, context, FALSE, href) :
           text \in HeadingTexts, context \in {"none", "p"},
           href \in { None, Some(<<"/","e","v","e","n","t","/","7">>),
                      Some(<<"/","a","b","o","u","t">>) } }
    ELSE IF pass = "hollywood.fetch_showtimes"
    THEN { Heading(text, near, "none", FALSE, None) :
           text \in { <<>>, <<"D","u","n","e">>, <<" ","U","p"," ">> },
           near \in {<<>>} \cup { <<t>> : t \in NearTexts }
                    \cup { <<t, u>> : t \in {<<"7",":","0","5","p","m">>}, u \in NearTexts } }
    ELSE {}

\* The pattern matches and the lines a page offers to a pass.
MatchesFor(pass) ==
    IF pass = "cinemagic.fetch_showtimes"
    THEN { <<>>,
           << <<"Fri", <<"M","a","r"," ","1">>, <<"7",":","0","5">> >> >>,
           << <<"Sat", <<"M","a","r"," ","2">>, <<"2","5",":","0","0">> >> >>,
           << <<"Fri", <<"M","a","r"," ","9">>, <<"7",":","0","5">> >> >> }
    ELSE { <<>> }

LinesFor(pass) ==
    IF pass = "bagdad._broad_search"
    THEN UNION { [1..n -> LineTexts] : n \in 0..MaxEntries }
    ELSE IF pass = "bagdad.fetch_showtimes"
    THEN { <<>>, << <<"D","u","n","e">> >> }
    ELSE { <<>> }

\* The pages of a pass.
MinedPages(pass) ==
    { [headings |-> headings, matches |-> matches, lines |-> lines] :
      headings \in UNION { [1..n -> HeadingsFor(pass)] :
                           n \in (IF HeadingsFor(pass) = {} THEN 0 ELSE 1)..MaxEntries },
      matches \in MatchesFor(pass),
      lines \in LinesFor(pass) }

InitMine ==
    /\ scraper \in MiningPasses
    /\ soup \in MinedPages(scraper)
    /\ extracted = None
    /\ time_str = None
    /\ parsed = None
    /\ start_date \in StartDates
    /\ num_days \in NumDaysChoices
    /\ pc = "mine"
    /\ idx = 1
    /\ log = <<>>
    /\ all_movies = <<>>
    /\ movies_by_title = <<>>
    /\ catalogs = <<>>
    /\ clock = 0
    /\ theaters = <<>>
    /\ movies = <<>>
    /\ results = NoResults
    /\ saved = <<>>

\* Cinema21Scraper._extract_from_rendered on the rendered page.
CallExtractFromRendered ==
    /\ pc = "mine"
    /\ scraper = "cinema21._extract_from_rendered"
    /\ extracted' = ExtractFromRendered(soup.headings, {}, start_date)
    /\ pc' = "mined"
    /\ UNCHANGED <<aggVars, theaters, idx, log, movies, results, saved,
                   scraper, soup, time_str, parsed>>

\* CinemagicScraper.fetch_showtimes after the page load.
CallCinemagicFetch ==
    /\ pc = "mine"
    /\ scraper = "cinemagic.fetch_showtimes"
    /\ extracted' = CinemagicFetch(soup, start_date, num_days)
    /\ pc' = "mined"
    /\ UNCHANGED <<aggVars, theaters, idx, log, movies, results, saved,
                   scraper, soup, time_str, parsed>>

\* BagdadScraper.fetch_showtimes after the page load.
CallBagdadFetch ==
    /\ pc = "mine"
    /\ scraper = "bagdad.fetch_showtimes"
    /\ extracted' = BagdadFetch(soup, start_date)
    /\ pc' = "mined"
    /\ UNCHANGED <<aggVars, theaters, idx, log, movies, results, saved,
                   scraper, soup, time_str, parsed>>

\* BagdadScraper._broad_search on a page with a "Now Playing" section.
CallBroadSearch ==
    /\ pc = "mine"
    /\ scraper = "bagdad._broad_search"
    /\ extracted' = BroadSearch(soup.lines, start_date)
    /\ pc' = "mined"
    /\ UNCHANGED <<aggVars, theaters, idx, log, movies, results, saved,
                   scraper, soup, time_str, parsed>>

\* ClintonScraper._parse_generic
CallParseGeneric ==
    /\ pc = "mine"
    /\ scraper = "clinton._parse_generic"
    /\ extracted' = ParseGeneric(soup.headings, start_date)
    /\ pc' = "mined"
    /\ UNCHANGED <<aggVars, theaters, idx, log, movies, results, saved,
                   scraper, soup, time_str, parsed>>

\* HollywoodScraper.fetch_showtimes after the page load.
CallHollywoodFetch ==
    /\ pc = "mine"
    /\ scraper = "hollywood.fetch_showtimes"
    /\ extracted' = HollywoodMovies(soup.headings)
    /\ pc' = "mined"
    /\ UNCHANGED <<aggVars, theaters, idx, log, movies, results, saved,
                   scraper, soup, time_str, parsed>>

NextMine ==
    \/ CallExtractFromRendered
    \/ CallCinemagicFetch
    \/ CallBagdadFetch
    \/ CallBroadSearch
    \/ CallParseGeneric
    \/ CallHollywoodFetch

SpecMine == InitMine /\ [][NextMine]_vars

(***************************************************************************)
(* One call of an extractor's fetch_showtimes: the page loads, then the    *)
(* tactics that read the loaded page. A page is abstracted to what each    *)
(* tactic finds on it.                                                     *)
(***************************************************************************)
\* The extractor classes of src/scrapers.
Extractors == { "cinema21", "hollywood", "cinemagic", "bagdad", "laurelhurst",
                "clinton", "livingroom", "academy", "google", "serpapi",
                "showtimes_com" }

\* How a page load ends: the page arrives, or requests / Playwright raises.
LoadOutcomes == { "ok", "network error", "timeout", "http error" }

\* The extractors whose page load stands inside a try block of
\* fetch_showtimes (or of _fetch_page) that catches what the load raises.
CatchesLoadErrors(extractor) ==
    extractor \in { "hollywood", "academy", "google", "serpapi", "showtimes_com" }

\* The extractors that return [] before any load when a key or URL is missing.
NeedsCredential(extractor) == extractor \in { "serpapi", "showtimes_com" }

\* The URLs fetch_showtimes loads in turn: Academy tries its showtimes page,
\* then its main page; showtimes.com loads a second page only for more than
\* seven days.
PageCount(extractor, days) ==
    IF extractor = "academy" THEN 2
    ELSE IF extractor = "showtimes_com" /\ days > 7 THEN 2
    ELSE 1

\* The tactics fetch_showtimes chains on a loaded page, in the order of the
\* code.
Tactics(extractor) ==
    IF extractor = "clinton" THEN << "jsonld", "tribe_events", "generic" >>
    ELSE IF extractor = "bagdad" THEN << "headings", "broad_search" >>
    ELSE << "extract" >>

\* The time of the showing a tactic attaches to a title.
TacticTime(tactic) ==
    IF tactic \in { "generic", "broad_search" } THEN "See website"
    ELSE IF tactic = "tribe_events" THEN "9:30 PM"
    ELSE "7:00 PM"

\* The record a tactic builds for a title it found (_build_movie).
TacticRecord(extractor, tactic, title) ==
    BuildMovieEntry(title, extractor, None,
                    << [time |-> TacticTime(tactic), url |-> TheaterUrl(extractor),
                        date |-> Strftime(start_date)] >>)

\* The titles one tactic may find on a page.
FoundTitles == { <<>>, << <<"D","u","n","e">> >>, << <<"U","p">> >> }

\* The pages an extractor may be served: for each tactic, the titles it finds.
Pages(extractor) == [ Range(Tactics(extractor)) -> FoundTitles ]

\* What a tactic returns on a page.
TacticResult(extractor, page, tactic) ==
    [ i \in DOMAIN page[tactic] |-> TacticRecord(extractor, tactic, page[tactic][i]) ]

\* fetch_showtimes returned this list / let this error escape.
ReturnedList(records) == [ raised |-> FALSE, movies |-> records ]
RaisedError(error) == [ raised |-> TRUE, error |-> error ]

\* A chain that returns whatever its first tactic found.
TacticYieldsAlways(result) == TRUE

\* "if movies: return movies" after a tactic.
TacticYields(result) == result # <<>>

\* The tactics run so far on the current page.
TacticsRun == SelectSeq(log, LAMBDA e : e.step = "tactic" /\ e.page = idx)

InitFetch ==
    /\ scraper \in Extractors
    /\ soup = None
    /\ extracted = None
    /\ time_str = None
    /\ parsed = None
    /\ start_date \in StartDates
    /\ num_days \in NumDaysChoices
    /\ pc = "fetch"
    /\ idx = 1
    /\ log = <<>>
    /\ all_movies = <<>>
    /\ movies_by_title = <<>>
    /\ catalogs = <<>>
    /\ clock = 0
    /\ theaters = <<>>
    /\ movies = <<>>
    /\ results = NoResults
    /\ saved = <<>>

\* fetch_showtimes up to the end of one page load: requests.get with
\* raise_for_status, or page.goto with the waits.
LoadPage ==
    /\ pc = "fetch"
    /\ \E configured \in BOOLEAN, outcome \in LoadOutcomes, page \in Pages(scraper) :
          IF NeedsCredential(scraper) /\ ~configured
          THEN /\ extracted' = ReturnedList(<<>>)
               /\ pc' = "fetched"
               /\ UNCHANGED <<soup, idx, log>>
          ELSE /\ log' = Append(log, [step |-> "load", page |-> idx, outcome |-> outcome])
               /\ IF outcome = "ok"
                  THEN /\ soup' = page
                       /\ pc' = "parse"
                       /\ UNCHANGED <<extracted, idx>>
                  ELSE IF ~CatchesLoadErrors(scraper)
                  THEN /\ extracted' = RaisedError(outcome)
                       /\ pc' = "fetched"
                       /\ UNCHANGED <<soup, idx>>
                  ELSE IF idx < PageCount(scraper, num_days)
                  THEN /\ idx' = idx + 1
                       /\ UNCHANGED <<soup, extracted, pc>>
                  ELSE /\ extracted' = ReturnedList(<<>>)
                       /\ pc' = "fetched"
                       /\ UNCHANGED <<soup, idx>>
    /\ UNCHANGED <<aggVars, theaters, movies, results, saved, scraper, time_str, parsed>>

\* The next tactic of the chain on the loaded page; its list is returned if it
\* is not empty or if no tactic (and no page) is left.
RunTactic ==
    /\ pc = "parse"
    /\ LET tactic == Tactics(scraper)[Len(TacticsRun) + 1]
           result == TacticResult(scraper, soup, tactic)
       IN  /\ log' = Append(log, [step |-> "tactic", page |-> idx, tactic |-> tactic,
                                  result |-> result])
           /\ IF TacticYields(result)
              THEN /\ extracted' = ReturnedList(result)
                   /\ pc' = "fetched"
                   /\ idx' = idx
              ELSE IF Len(TacticsRun) + 1 < Len(Tactics(scraper))
              THEN /\ UNCHANGED <<extracted, pc, idx>>
              ELSE IF idx < PageCount(scraper, num_days)
              THEN /\ idx' = idx + 1
                   /\ pc' = "fetch"
                   /\ UNCHANGED extracted
              ELSE /\ extracted' = ReturnedList(result)
                   /\ pc' = "fetched"
                   /\ idx' = idx
    /\ UNCHANGED <<aggVars, theaters, movies, results, saved, scraper, soup,
                   time_str, parsed>>

NextFetch ==
    \/ LoadPage
    \/ RunTactic

SpecFetch == InitFetch /\ [][NextFetch]_vars


(***************************************************************************)
(* The date resolvers: SerpAPIScraper._resolve_date and                    *)
(* ShowtimesComScraper._resolve_date.                                      *)
(***************************************************************************)
\* date.toordinal(): the days before the year, before the month, and the day.
RECURSIVE DaysBeforeMonth(_, _)
DaysBeforeMonth(year, month) ==
    IF month = 1 THEN 0
    ELSE DaysBeforeMonth(year, month - 1) + DaysInMonth(year, month - 1)

ToOrdinal(d) ==
    LET y == d.year - 1
    IN  y * 365 + (y \div 4) - (y \div 100) + (y \div 400)
        + DaysBeforeMonth(d.year, d.month) + d.day

\* datetime.weekday(): Monday is 0.
Weekday(d) == (ToOrdinal(d) + 6) % 7

\* days_of_week
DaysOfWeek ==
    << <<"m","o","n","d","a","y">>, <<"t","u","e","s","d","a","y">>,
       <<"w","e","d","n","e","s","d","a","y">>, <<"t","h","u","r","s","d","a","y">>,
       <<"f","r","i","d","a","y">>, <<"s","a","t","u","r","d","a","y">>,
       <<"s","u","n","d","a","y">> >>

\* The month names %B matches, ignoring case.
MonthNames ==
    << <<"j","a","n","u","a","r","y">>, <<"f","e","b","r","u","a","r","y">>,
       <<"m","a","r","c","h">>, <<"a","p","r","i","l">>, <<"m","a","y">>,
       <<"j","u","n","e">>, <<"j","u","l","y">>, <<"a","u","g","u","s","t">>,
       <<"s","e","p","t","e","m","b","e","r">>, <<"o","c","t","o","b","e","r">>,
       <<"n","o","v","e","m","b","e","r">>, <<"d","e","c","e","m","b","e","r">> >>

\* The longest run of letters str starts with.
RECURSIVE LeadingLetters(_)
LeadingLetters(str) ==
    IF str # <<>> /\ Head(str) \in Range(LowerCase) \cup Range(UpperCase)
    THEN <<Head(str)>> \o LeadingLetters(Tail(str))
    ELSE <<>>

\* str.startswith(prefix)
HasPrefix(str, prefix) ==
    Len(prefix) <= Len(str) /\ SubSeq(str, 1, Len(prefix)) = prefix

\* datetime.strptime(text, '%b %d') (full = FALSE) or '%B %d' (full = TRUE):
\* the month and day, or None where it raises ValueError. The year of the
\* parsed date is 1900, which has no 29 February.
StrptimeMonthAndDay(text, full) ==
    LET word == Lower(LeadingLetters(text))
        names == IF full THEN MonthNames ELSE MonthAbbreviations
        rest == SubSeq(text, Len(word) + 1, Len(text))
        day_text == LStrip(rest)
        known == \E k \in DOMAIN names : names[k] = word
        month == CHOOSE k \in DOMAIN names : names[k] = word
    IN  IF /\ known
           /\ Len(day_text) < Len(rest)
           /\ IsNumber(day_text) /\ Len(day_text) <= 2
           /\ IntOf(day_text) \in 1..DaysInMonth(1900, month)
        THEN Some([month |-> month, day |-> IntOf(day_text)])
        ELSE None

\* datetime.strptime(text, '%a, %b %d') (full = FALSE) or '%A, %B %d'.
StrptimeWeekdayMonthDay(text, full) ==
    LET word == Lower(LeadingLetters(text))
        rest == SubSeq(text, Len(word) + 2, Len(text))
    IN  IF /\ \E k \in DOMAIN DaysOfWeek :
                 word = (IF full THEN DaysOfWeek[k] ELSE SubSeq(DaysOfWeek[k], 1, 3))
           /\ Len(text) > Len(word) /\ text[Len(word) + 1] = ","
           /\ Len(LStrip(rest)) < Len(rest)
        THEN StrptimeMonthAndDay(LStrip(rest), full)
        ELSE None

\* The first of the formats that parses the text ("for fmt in [...]: try").
RECURSIVE FirstDateFormat(_, _)
FirstDateFormat(text, formats) ==
    IF formats = <<>> THEN None
    ELSE LET fmt == Head(formats)
             got == IF fmt = "%a, %b %d" THEN StrptimeWeekdayMonthDay(text, FALSE)
                    ELSE IF fmt = "%A, %B %d" THEN StrptimeWeekdayMonthDay(text, TRUE)
                    ELSE IF fmt = "%b %d" THEN StrptimeMonthAndDay(text, FALSE)
                    ELSE StrptimeMonthAndDay(text, TRUE)
         IN  IF got # None THEN got ELSE FirstDateFormat(text, Tail(formats))

\* A delta that leaves the reference date's own weekday at +0.
DeltaDaysSameDay(i, current_dow) == (i - current_dow) % 7

\* delta = (i - current_dow) % 7, and 7 in place of 0.
DeltaDays(i, current_dow) ==
    IF (i - current_dow) % 7 = 0 THEN 7 ELSE (i - current_dow) % 7

\* SerpAPIScraper._resolve_date
SerpResolveDate(day_label, date_hint, start) ==
    LET day_label_lower == Lower(day_label)
        month_day == FirstDateFormat(date_hint, <<"%b %d", "%B %d">>)
        matching == { i \in 0..6 : HasPrefix(day_label_lower, SubSeq(DaysOfWeek[i + 1], 1, 3)) }
        first == CHOOSE i \in matching : \A j \in matching : i <= j
    IN  IF day_label_lower = <<"t","o","d","a","y">> THEN Strftime(start)
        ELSE IF day_label_lower = <<"t","o","m","o","r","r","o","w">>
        THEN Strftime(PlusDays(start, 1))
        ELSE IF date_hint # <<>> /\ month_day # None
        THEN Strftime([start EXCEPT !.month = month_day[1].month, !.day = month_day[1].day])
        ELSE IF matching # {}
        THEN Strftime(PlusDays(start, DeltaDays(first, Weekday(start))))
        ELSE Strftime(start)

\* str.rstrip(':')
RECURSIVE RStripColon(_)
RStripColon(str) ==
    IF str # <<>> /\ str[Len(str)] = ":" THEN RStripColon(SubSeq(str, 1, Len(str) - 1))
    ELSE str

\* ShowtimesComScraper._resolve_date: the date text, or None.
ShowtimesResolveDate(date_text, start) ==
    LET text == RStripColon(Strip(date_text))
        month_day == FirstDateFormat(text, <<"%a, %b %d", "%A, %B %d", "%b %d", "%B %d">>)
        lower == Lower(text)
    IN  IF month_day # None
        THEN Some(Strftime([start EXCEPT
                              !.year = IF month_day[1].month < start.month - 1
                                       THEN start.year + 1 ELSE start.year,
                              !.month = month_day[1].month,
                              !.day = month_day[1].day]))
        ELSE IF Contains(lower, <<"t","o","d","a","y">>) THEN Some(Strftime(start))
        ELSE IF Contains(lower, <<"t","o","m","o","r","r","o","w">>)
        THEN Some(Strftime(PlusDays(start, 1)))
        ELSE None

\* The functions followed.
DateResolvers == { "serpapi._resolve_date", "showtimes_com._resolve_date" }

\* Reference dates: a Saturday, the week around 29 February 2024, the end of
\* February 2023, the middle and the end of other months and of the year.
ReferenceDates ==
    { [year |-> ymd[1], month |-> ymd[2], day |-> ymd[3],
       hour |-> 6, minute |-> 30, second |-> 0] :
      ymd \in { <<2024, 2, 10>>, <<2024, 2, 26>>, <<2024, 2, 27>>, <<2024, 2, 28>>,
                <<2024, 2, 29>>, <<2024, 3, 1>>, <<2024, 3, 2>>, <<2024, 3, 3>>,
                <<2023, 2, 28>>, <<2024, 1, 15>>, <<2024, 3, 15>>, <<2024, 12, 5>>,
                <<2024, 12, 29>>, <<2024, 12, 31>> } }

\* The 'day' labels of SerpAPI day blocks.
DayLabels ==
    { <<"T","o","d","a","y">>,
      <<"T","O","D","A","Y">>,
      <<"t","o","d","a","y"," ">>,
      <<"T","o","m","o","r","r","o","w">>,
      <<"t","o","m","o","r","r","o","w">>,
      <<"M","o","n">>,
      <<"t","u","e">>,
      <<"W","E","D">>,
      <<"T","h","u","r","s","d","a","y">>,
      <<"F","r","i">>,
      <<"s","a","t">>,
      <<"S","u","n">>,
      <<>>,
      <<"N","o","w">> }

\* The 'date' hints of SerpAPI day blocks.
DateHints ==
    { <<>>,
      <<"F","e","b"," ","1","2">>,
      <<"J","a","n"," ","3">>,
      <<"J","a","n","u","a","r","y"," ","3">>,
      <<"D","e","c"," ","3","1">>,
      <<"F","e","b"," ","2","9">>,
      <<"N","o","v"," "," ","3","0">>,
      <<"M","a","r"," ","1">>,
      <<"s","o","o","n">> }

\* The date labels of showtimes.com ticket buttons.
DateTexts ==
    { <<"T","o","d","a","y">>,
      <<"T","O","D","A","Y">>,
      <<"T","o","m","o","r","r","o","w",":">>,
      <<" ","t","o","m","o","r","r","o","w"," ">>,
      <<"T","h","u",","," ","F","e","b"," ","1","2">>,
      <<"T","h","u","r","s","d","a","y",","," ","F","e","b","r","u","a","r","y"," ","1","2">>,
      <<"T","h","u",","," ","F","e","b","r","u","a","r","y"," ","1","2">>,
      <<"F","e","b"," ","1","2">>,
      <<"J","a","n"," ","3">>,
      <<"D","e","c"," ","3","1">>,
      <<"F","r","i",","," ","F","e","b"," ","2","9">>,
      <<"M","o","n">>,
      <<"T","h","u">>,
      <<>>,
      <<"S","h","o","w","t","i","m","e","s">> }

\* The arguments of one call.
ResolveArguments(resolver) ==
    IF resolver = "serpapi._resolve_date"
    THEN [day_label : DayLabels, date_hint : DateHints]
    ELSE [day_label : DateTexts, date_hint : {<<>>}]

InitDate ==
    /\ scraper \in DateResolvers
    /\ soup \in ResolveArguments(scraper)
    /\ extracted = None
    /\ time_str = None
    /\ parsed = None
    /\ start_date \in ReferenceDates
    /\ num_days \in {7}
    /\ pc = "resolve"
    /\ idx = 1
    /\ log = <<>>
    /\ all_movies = <<>>
    /\ movies_by_title = <<>>
    /\ catalogs = <<>>
    /\ clock = 0
    /\ theaters = <<>>
    /\ movies = <<>>
    /\ results = NoResults
    /\ saved = <<>>

\* self._resolve_date(day_label, date_hint, start_date) of SerpAPIScraper.
CallSerpResolveDate ==
    /\ pc = "resolve"
    /\ scraper = "serpapi._resolve_date"
    /\ parsed' = Some(SerpResolveDate(soup.day_label, soup.date_hint, start_date))
    /\ pc' = "resolved"
    /\ UNCHANGED <<aggVars, theaters, idx, log, movies, results, saved,
                   scraper, soup, extracted, time_str>>

\* self._resolve_date(date_text, start_date) of ShowtimesComScraper.
CallShowtimesResolveDate ==
    /\ pc = "resolve"
    /\ scraper = "showtimes_com._resolve_date"
    /\ parsed' = ShowtimesResolveDate(soup.day_label, start_date)
    /\ pc' = "resolved"
    /\ UNCHANGED <<aggVars, theaters, idx, log, movies, results, saved,
                   scraper, soup, extracted, time_str>>

NextDate ==
    \/ CallSerpResolveDate
    \/ CallShowtimesResolveDate

SpecDate == InitDate /\ [][NextDate]_vars

(***************************************************************************)
(* Enrichment of one record: search_tmdb, download_poster, and the dict    *)
(* the extractor builds from what they return.                             *)
(***************************************************************************)
\* The three ways the extractors build a record: Laurelhurst's (with the
\* theater's own poster and rating), _build_movie with a description from the
\* page (Clinton, Bagdad, Cinema21, Academy, Living Room, Hollywood), and the
\* plain one (Cinemagic, the Google fallback, SerpAPI, showtimes.com).
RecordBuilders ==
    { "laurelhurst.fetch_showtimes", "clinton._build_movie", "cinemagic.fetch_showtimes" }

\* What the page gives for one movie.
ExtractedFilms(builder) ==
    IF builder = "laurelhurst.fetch_showtimes"
    THEN [title : {<<"D","u","n","e">>}, description : {""},
          posterURL : {None, Some("https://www.laurelhursttheater.com/dune.jpg")},
          rating : {"", "PG-13"}, lengthMin : {"", "155"}]
    ELSE IF builder = "clinton._build_movie"
    THEN [title : {<<"D","u","n","e">>}, description : {"", "A free screening."},
          posterURL : {None}, rating : {""}, lengthMin : {""}]
    ELSE [title : {<<"D","u","n","e">>}, description : {""},
          posterURL : {None}, rating : {""}, lengthMin : {""}]

\* What the search request gives: an error (network, HTTP status, bad JSON),
\* or the 'results' list of the response with at most one movie.
SearchResponses ==
    { [failed |-> TRUE, results |-> <<>>] } \cup
    { [failed |-> FALSE, results |-> listed] :
        listed \in { <<>> } \cup
            { <<movie>> : movie \in [id : {438631}, title : {"Dune"},
                                      overview : {"", "A duke's son leads nomads."},
                                      poster_path : {None, Some("/d5NXSklXo0.jpg")}] } }

\* BaseScraper.search_tmdb
SearchTmdb(tmdb_api_key, response) ==
    IF tmdb_api_key = None THEN None
    ELSE IF response.failed THEN None
    ELSE IF response.results = <<>> THEN None
    ELSE Some([tmdb_id |-> response.results[1].id,
               title |-> response.results[1].title,
               overview |-> response.results[1].overview,
               poster_path |-> response.results[1].poster_path])

\* "tmdb_data and tmdb_data.get('poster_path')"
WantsPoster(tmdb_data) == tmdb_data # None /\ tmdb_data[1].poster_path # None

\* The value download_poster returned in this call, None if it was not called.
DownloadedPoster ==
    IF log # <<>> /\ log[Len(log)].step = "download_poster" THEN log[Len(log)].returned
    ELSE None

\* A description as the pieces it is put together from: none for ''.
TextOf(str) == IF str = "" THEN <<>> ELSE <<str>>

\* The description of LaurelhurstScraper.fetch_showtimes: the overview, with
\* the rating and running time of the page before it.
LaurelhurstDescription(film, tmdb_data) ==
    LET description == IF tmdb_data # None THEN TextOf(tmdb_data[1].overview) ELSE <<>>
        rated == IF film.rating # "" THEN <<"Rated ", film.rating>> ELSE <<>>
        meta == IF film.lengthMin = "" THEN rated
                ELSE rated \o (IF rated # <<>> THEN <<" | ">> ELSE <<>>)
                           \o <<film.lengthMin, " min">>
    IN  IF film.rating # "" \/ film.lengthMin # ""
        THEN (IF description # <<>> THEN meta \o <<" - ">> \o description ELSE meta)
        ELSE description

\* The dict an extractor appends.
EnrichedRecord(title, description, poster, tmdb_data) ==
    [ title |-> title,
      description |-> description,
      poster |-> poster,
      letterboxd_url |->
          GetLetterboxdUrl(title, IF tmdb_data # None THEN Some(tmdb_data[1].tmdb_id) ELSE None),
      tmdb_id |-> IF tmdb_data # None THEN Some(tmdb_data[1].tmdb_id) ELSE None ]

InitEnrich ==
    /\ scraper \in RecordBuilders
    /\ soup \in ExtractedFilms(scraper)
    /\ extracted = None
    /\ time_str = None
    /\ parsed = None
    /\ start_date \in StartDates
    /\ num_days \in {7}
    /\ pc = "search_tmdb"
    /\ idx = 1
    /\ log = <<>>
    /\ all_movies = <<>>
    /\ movies_by_title = <<>>
    /\ catalogs = <<>>
    /\ clock = 0
    /\ theaters = <<>>
    /\ movies = <<>>
    /\ results = NoResults
    /\ saved = <<>>

\* tmdb_data = self.search_tmdb(title)
CallSearchTmdb ==
    /\ pc = "search_tmdb"
    /\ \E tmdb_api_key \in {None, Some("key")}, response \in SearchResponses :
          /\ parsed' = SearchTmdb(tmdb_api_key, response)
          /\ log' = Append(log, [step |-> "search_tmdb",
                                 outcome |-> IF tmdb_api_key = None THEN "no key"
                                             ELSE IF response.failed THEN "error"
                                             ELSE IF response.results = <<>> THEN "no result"
                                             ELSE "found",
                                 returned |-> SearchTmdb(tmdb_api_key, response)])
          /\ pc' = IF WantsPoster(SearchTmdb(tmdb_api_key, response))
                   THEN "download_poster" ELSE "build"
    /\ UNCHANGED <<aggVars, theaters, idx, movies, results, saved,
                   scraper, soup, extracted, time_str>>

\* poster_path = self.download_poster(tmdb_data['poster_path'], movie_slug),
\* with the image request succeeding or failing.
CallDownloadPoster ==
    /\ pc = "download_poster"
    /\ \E fetched \in BOOLEAN :
          log' = Append(log, [step |-> "download_poster",
                              outcome |-> IF fetched THEN "fetched" ELSE "error",
                              returned |-> IF fetched THEN Some(PosterPath(Slugify(soup.title)))
                                           ELSE None])
    /\ pc' = "build"
    /\ UNCHANGED <<aggVars, theaters, idx, movies, results, saved, extVars>>

\* The rest of the film loop of LaurelhurstScraper.fetch_showtimes.
BuildLaurelhurst ==
    /\ pc = "build"
    /\ scraper = "laurelhurst.fetch_showtimes"
    /\ extracted' = EnrichedRecord(soup.title,
                                   LaurelhurstDescription(soup, parsed),
                                   IF WantsPoster(parsed) THEN DownloadedPoster
                                   ELSE IF soup.posterURL # None THEN soup.posterURL
                                   ELSE None,
                                   parsed)
    /\ pc' = "built"
    /\ UNCHANGED <<aggVars, theaters, idx, log, movies, results, saved,
                   scraper, soup, time_str, parsed>>

\* The return of _build_movie(title, description, url, showtimes).
BuildMovie ==
    /\ pc = "build"
    /\ scraper = "clinton._build_movie"
    /\ extracted' = EnrichedRecord(soup.title,
                                   IF soup.description # "" THEN TextOf(soup.description)
                                   ELSE IF parsed # None THEN TextOf(parsed[1].overview)
                                   ELSE <<>>,
                                   DownloadedPoster, parsed)
    /\ pc' = "built"
    /\ UNCHANGED <<aggVars, theaters, idx, log, movies, results, saved,
                   scraper, soup, time_str, parsed>>

\* The dict CinemagicScraper.fetch_showtimes appends.
BuildPlain ==
    /\ pc = "build"
    /\ scraper = "cinemagic.fetch_showtimes"
    /\ extracted' = EnrichedRecord(soup.title,
                                   IF parsed # None THEN TextOf(parsed[1].overview) ELSE <<>>,
                                   DownloadedPoster, parsed)
    /\ pc' = "built"
    /\ UNCHANGED <<aggVars, theaters, idx, log, movies, results, saved,
                   scraper, soup, time_str, parsed>>

NextEnrich ==
    \/ CallSearchTmdb
    \/ CallDownloadPoster
    \/ BuildLaurelhurst
    \/ BuildMovie
    \/ BuildPlain

SpecEnrich == InitEnrich /\ [][NextEnrich]_vars

(***************************************************************************)
(* BaseScraper.download_poster called by several callers that share the    *)
(* posters directory.  The existence check and the write are separate      *)
(* steps of a call, so calls may run one after another or interleave.      *)
(* soup holds the posters directory (slug -> file content or None) and     *)
(* parsed holds each call's local state.                                   *)
(***************************************************************************)
MaxCallers == 2

MovieSlugs == { <<"d","u","n","e">>, <<"h","e","a","t">> }

\* response.content of the image request: what the image host serves.
ResponseContents == {"jpeg-a", "jpeg-b"}

PosterCall(movie_slug, poster_path) ==
    [at |-> "request", movie_slug |-> movie_slug, poster_path |-> poster_path,
     content |-> None, returned |-> None]

InitPoster ==
    /\ scraper = "download_poster"
    /\ soup = [slug \in MovieSlugs |-> None]
    /\ parsed \in [1..MaxCallers -> {PosterCall(slug, path) :
                                       slug \in MovieSlugs, path \in {"", "/p.jpg"}}]
    /\ extracted = None
    /\ time_str = None
    /\ start_date \in {[year |-> 2024, month |-> 2, day |-> 10]}
    /\ num_days \in {7}
    /\ pc = "download_poster"
    /\ idx = 1
    /\ log = <<>>
    /\ all_movies = <<>>
    /\ movies_by_title = <<>>
    /\ catalogs = <<>>
    /\ clock = 0
    /\ theaters = <<>>
    /\ movies = <<>>
    /\ results = NoResults
    /\ saved = <<>>

\* if not poster_path: return None
\* response = requests.get(poster_url, timeout=10); response.raise_for_status()
\* except Exception: return None
RequestPoster(call) ==
    /\ pc = "download_poster"
    /\ parsed[call].at = "request"
    /\ \E response \in {None} \cup {Some(content) : content \in ResponseContents} :
          parsed' = [parsed EXCEPT ![call] =
                        IF parsed[call].poster_path = "" \/ response = None
                        THEN [@ EXCEPT !.at = "returned"]
                        ELSE [@ EXCEPT !.at = "exists", !.content = response]]
    /\ UNCHANGED <<aggVars, mainVars, scraper, soup, extracted, time_str>>

\* if not os.path.exists(poster_filepath):
PathExists(call) ==
    /\ pc = "download_poster"
    /\ parsed[call].at = "exists"
    /\ parsed' = [parsed EXCEPT ![call].at =
                     IF soup[parsed[call].movie_slug] = None THEN "write" ELSE "return"]
    /\ UNCHANGED <<aggVars, mainVars, scraper, soup, extracted, time_str>>

\* with open(poster_filepath, 'wb') as f: f.write(response.content)
WritePoster(call) ==
    /\ pc = "download_poster"
    /\ parsed[call].at = "write"
    /\ soup' = [soup EXCEPT ![parsed[call].movie_slug] = parsed[call].content]
    /\ parsed' = [parsed EXCEPT ![call].at = "return"]
    /\ UNCHANGED <<aggVars, mainVars, scraper, extracted, time_str>>

\* return f"posters/{poster_filename}"
ReturnPoster(call) ==
    /\ pc = "download_poster"
    /\ parsed[call].at = "return"
    /\ parsed' = [parsed EXCEPT ![call] =
                     [@ EXCEPT !.at = "returned",
                               !.returned = Some(PosterPath(parsed[call].movie_slug))]]
    /\ UNCHANGED <<aggVars, mainVars, scraper, soup, extracted, time_str>>

CallRequestPoster == \E call \in 1..MaxCallers : RequestPoster(call)

CallPathExists == \E call \in 1..MaxCallers : PathExists(call)

CallWritePoster == \E call \in 1..MaxCallers : WritePoster(call)

CallReturnPoster == \E call \in 1..MaxCallers : ReturnPoster(call)

NextPoster ==
    \/ CallRequestPoster
    \/ CallPathExists
    \/ CallWritePoster
    \/ CallReturnPoster

SpecPoster == InitPoster /\ [][NextPoster]_vars

(***************************************************************************)
(* SerpAPIScraper._parse_showtimes: one pass over the day blocks of a      *)
(* response, with the set seen_titles kept across the blocks.              *)
(***************************************************************************)
\* Most day blocks in a response, and most entries in a list of a block.
MaxBlocks == 2

MaxBlockEntries == 2

\* re.sub(r'\s*\(?\d{4}\)?\s*$', '', title)
DropTrailingYear(title) ==
    LET t == RStrip(title)
        body == IF t # <<>> /\ t[Len(t)] = ")" THEN SubSeq(t, 1, Len(t) - 1) ELSE t
        n == Len(body)
    IN  IF n >= 4 /\ \A i \in (n - 3)..n : IsDigit(body[i])
        THEN LET head == SubSeq(body, 1, n - 4)
             IN  RStrip(IF head # <<>> /\ head[Len(head)] = "("
                        THEN SubSeq(head, 1, Len(head) - 1) ELSE head)
        ELSE title

\* The character U+2013 (en dash).
EnDash == "ndash"

\* re.sub(r'\s*[-\u2013]\s*Trailer$', '', title, flags=re.IGNORECASE)
DropTrailer(title) ==
    LET n == Len(title)
        head == RStrip(SubSeq(title, 1, n - 7))
    IN  IF /\ n >= 7
           /\ Lower(SubSeq(title, n - 6, n)) = <<"t","r","a","i","l","e","r">>
           /\ head # <<>>
           /\ head[Len(head)] \in {"-", EnDash}
        THEN RStrip(SubSeq(head, 1, Len(head) - 1))
        ELSE title

\* re.sub(r'\s*\|\s*.*$', '', title)
DropAfterPipe(title) ==
    IF "|" \in Range(title)
    THEN LET first == CHOOSE i \in DOMAIN title :
                          title[i] = "|" /\ \A j \in 1..(i - 1) : title[j] # "|"
         IN  RStrip(SubSeq(title, 1, first - 1))
    ELSE title

\* SerpAPIScraper._clean_title
CleanTitle(title) ==
    IF title = <<>> THEN <<>>
    ELSE Strip(DropAfterPipe(DropTrailer(DropTrailingYear(title))))

\* str.replace(' ', '')
WithoutBlanks(str) == SelectSeq(str, LAMBDA c : c # " ")

\* SerpAPIScraper._is_our_theater
IsOurTheater(name, theater_name, theater_id) ==
    \/ Contains(Lower(name), Lower(theater_name))
    \/ Contains(Lower(theater_name), Lower(name))
    \/ Contains(WithoutBlanks(Lower(name)), theater_id)

\* The titles the movie database knows, each with its id.
TmdbCatalogue ==
    { [id |-> 438631, title |-> <<"D","u","n","e">>],
      [id |-> 14160, title |-> <<"U","p">>] }

\* What the movie database answers to the search for a title when it is
\* reachable: the movies of that title, whatever the case.
TmdbResponse(title, reachable) ==
    [failed |-> ~reachable,
     results |-> IF reachable /\ \E m \in TmdbCatalogue : Lower(m.title) = Lower(title)
                 THEN LET m == CHOOSE m \in TmdbCatalogue : Lower(m.title) = Lower(title)
                      IN  << [id |-> m.id, title |-> m.title, overview |-> "",
                              poster_path |-> None] >>
                 ELSE <<>>]

\* The dict _parse_showtimes appends for a title and its showtime_list.
SerpRecord(title, tmdb_data, showtime_list) ==
    [ title |-> IF tmdb_data # None THEN tmdb_data[1].title ELSE title,
      description |-> IF tmdb_data # None THEN TextOf(tmdb_data[1].overview) ELSE <<>>,
      poster |-> None,
      theater_id |-> "cinema21",
      theater_url |-> TheaterUrl("cinema21"),
      letterboxd_url |->
          GetLetterboxdUrl(title, IF tmdb_data # None THEN Some(tmdb_data[1].tmdb_id) ELSE None),
      showtimes |-> showtime_list,
      tmdb_id |-> IF tmdb_data # None THEN Some(tmdb_data[1].tmdb_id) ELSE None ]

\* The same test on the title as written, without lower().
SeenTitleExact(title, seen_titles) == title \in seen_titles

\* title.lower() in seen_titles
SeenTitle(title, seen_titles) == Lower(title) \in seen_titles

\* for t in times: showtime_list.append({...})
SerpShowings(times, show_type, date_str) ==
    [i \in DOMAIN times |-> [time |-> NormalizeTime(times[i]),
                             url |-> TheaterUrl("cinema21"),
                             date |-> date_str,
                             format |-> show_type]]

\* for showing in showings: for t in showing.get('time', [])
RECURSIVE ShowtimeList(_, _)
ShowtimeList(showings, date_str) ==
    IF showings = <<>> THEN <<>>
    ELSE SerpShowings(Head(showings).time, Head(showings).type, date_str)
         \o ShowtimeList(Tail(showings), date_str)

\* The loop over day_block.get('movies', []); state is (movies, seen_titles).
RECURSIVE ParseMovieEntries(_, _, _, _)
ParseMovieEntries(entries, date_str, state, reachable) ==
    IF entries = <<>> THEN state
    ELSE LET movie_entry == Head(entries)
             title == CleanTitle(movie_entry.name)
             showtime_list == ShowtimeList(movie_entry.showing, date_str)
             tmdb_data == SearchTmdb(Some("key"), TmdbResponse(title, reachable))
         IN  IF title = <<>> \/ SeenTitle(title, state.seen_titles)
             THEN ParseMovieEntries(Tail(entries), date_str, state, reachable)
             ELSE IF showtime_list = <<>>
             THEN ParseMovieEntries(Tail(entries), date_str, state, reachable)
             ELSE ParseMovieEntries(Tail(entries), date_str,
                      [movies |-> Append(state.movies,
                                         SerpRecord(title, tmdb_data, showtime_list)),
                       seen_titles |-> state.seen_titles \cup {Lower(title)}],
                      reachable)

\* The loop over theater_entry.get('showing', []) of one of our theaters.
RECURSIVE ParseTheaterShowing(_, _, _, _)
ParseTheaterShowing(entries, date_str, state, reachable) ==
    IF entries = <<>> THEN state
    ELSE LET movie_entry == Head(entries)
             title == CleanTitle(movie_entry.name)
             showtime_list == SerpShowings(movie_entry.time, movie_entry.type, date_str)
             tmdb_data == SearchTmdb(Some("key"), TmdbResponse(title, reachable))
         IN  IF title = <<>> \/ SeenTitle(title, state.seen_titles)
             THEN ParseTheaterShowing(Tail(entries), date_str, state, reachable)
             ELSE IF showtime_list = <<>>
             THEN ParseTheaterShowing(Tail(entries), date_str, state, reachable)
             ELSE ParseTheaterShowing(Tail(entries), date_str,
                      [movies |-> Append(state.movies,
                                         SerpRecord(title, tmdb_data, showtime_list)),
                       seen_titles |-> state.seen_titles \cup {Lower(title)}],
                      reachable)

\* The loop over day_block.get('theaters', []).
RECURSIVE ParseTheaterEntries(_, _, _, _)
ParseTheaterEntries(entries, date_str, state, reachable) ==
    IF entries = <<>> THEN state
    ELSE LET theater_entry == Head(entries)
         IN  ParseTheaterEntries(Tail(entries), date_str,
                 IF IsOurTheater(theater_entry.name, <<"C","i","n","e","m","a"," ","2","1">>,
                                 <<"c","i","n","e","m","a","2","1">>)
                 THEN ParseTheaterShowing(theater_entry.showing, date_str, state, reachable)
                 ELSE state,
                 reachable)

\* The loop over showtimes_data.
RECURSIVE ParseDayBlocks(_, _, _, _)
ParseDayBlocks(blocks, start, state, reachable) ==
    IF blocks = <<>> THEN state
    ELSE LET day_block == Head(blocks)
             date_str == SerpResolveDate(day_block.day, day_block.date, start)
         IN  ParseDayBlocks(Tail(blocks), start,
                 ParseTheaterEntries(day_block.theaters, date_str,
                     ParseMovieEntries(day_block.movies, date_str, state, reachable),
                     reachable),
                 reachable)

\* SerpAPIScraper._parse_knowledge_graph over kg['showtimes'].
RECURSIVE ParseKnowledgeGraph(_, _, _)
ParseKnowledgeGraph(entries, start, reachable) ==
    IF entries = <<>> THEN <<>>
    ELSE LET entry == Head(entries)
             title == CleanTitle(entry.name)
             times == SelectSeq(entry.times, LAMBDA t : t # <<>>)
             showtime_list == [i \in DOMAIN times |->
                                  [time |-> NormalizeTime(times[i]),
                                   url |-> TheaterUrl("cinema21"),
                                   date |-> Strftime(start)]]
             tmdb_data == SearchTmdb(Some("key"), TmdbResponse(title, reachable))
             rest == ParseKnowledgeGraph(Tail(entries), start, reachable)
         IN  IF title = <<>> \/ showtime_list = <<>> THEN rest
             ELSE << SerpRecord(title, tmdb_data, showtime_list) >> \o rest

\* SerpAPIScraper._parse_showtimes
SerpParseShowtimes(data, start, reachable) ==
    IF data.showtimes = <<>>
    THEN IF data.knowledge_graph # None
         THEN ParseKnowledgeGraph(data.knowledge_graph[1].showtimes, start, reachable)
         ELSE <<>>
    ELSE ParseDayBlocks(data.showtimes, start,
                        [movies |-> <<>>, seen_titles |-> {}], reachable).movies

\* The names of the movie entries of a response.
EntryNames ==
    { <<"2","0","2","1">>,
      <<"D","u","n","e">>,
      <<"D","U","N","E"," ","(","2","0","2","1",")">>,
      <<"U","p"," ","|"," ","I","M","A","X">> }

\* The 'showing' lists of a movie entry: no time, one time.
EntryShowings ==
    { << [time |-> <<>>, type |-> "Standard"] >>,
      << [time |-> << <<"7",":","0","5","p","m">> >>, type |-> "IMAX"] >> }

MovieEntries == [name : EntryNames, showing : EntryShowings]

\* The 'theaters' list of a day block: none, this theater, another one.
TheaterEntries ==
    { <<>> } \cup
    { << [name |-> name,
          showing |-> << [name |-> <<"d","u","n","e">>,
                          time |-> << <<"2","1",":","3","0">> >>,
                          type |-> "Standard"] >>] >> :
      name \in { <<"C","i","n","e","m","a"," ","2","1">>, <<"R","e","g","a","l">> } }

\* The day block at position i of the response: today's, then tomorrow's,
\* then Sunday's (after the first with one movie entry at most).
DayBlocks(i) ==
    { [day |-> IF i = 1 THEN <<"T","o","d","a","y">>
               ELSE IF i = 2 THEN <<"T","o","m","o","r","r","o","w">>
               ELSE <<"S","u","n">>,
       date |-> <<>>, movies |-> entries, theaters |-> listed] :
      entries \in UNION { [1..n -> MovieEntries] :
                          n \in 0..(IF i = 1 THEN MaxBlockEntries ELSE 1) },
      listed \in TheaterEntries }

\* The lists of n day blocks.
RECURSIVE BlockLists(_)
BlockLists(n) ==
    IF n = 0 THEN { <<>> }
    ELSE { Append(front, block) : front \in BlockLists(n - 1), block \in DayBlocks(n) }

\* The knowledge graph panels of a response without day blocks.
KnowledgeGraphs ==
    { None } \cup
    { Some([showtimes |-> entries]) :
      entries \in UNION { [1..n -> [name : EntryNames,
                                    times : { <<>>, << <<"7",":","0","5","p","m">> >> }]] :
                          n \in 0..MaxBlockEntries } }

\* The responses of the search API.
SerpResponses ==
    { [showtimes |-> <<>>, knowledge_graph |-> kg] : kg \in KnowledgeGraphs }
    \cup { [showtimes |-> blocks, knowledge_graph |-> None] :
           blocks \in UNION { BlockLists(n) : n \in 1..MaxBlocks } }

InitSerp ==
    /\ scraper = "serpapi._parse_showtimes"
    /\ soup \in SerpResponses
    /\ extracted = None
    /\ time_str = None
    /\ parsed = None
    /\ start_date \in StartDates
    /\ num_days \in {7}
    /\ pc = "parse"
    /\ idx = 1
    /\ log = <<>>
    /\ all_movies = <<>>
    /\ movies_by_title = <<>>
    /\ catalogs = <<>>
    /\ clock = 0
    /\ theaters = <<>>
    /\ movies = <<>>
    /\ results = NoResults
    /\ saved = <<>>

\* movies = self._parse_showtimes(data, start_date), the movie database
\* answering or not.
CallSerpParseShowtimes ==
    /\ pc = "parse"
    /\ scraper = "serpapi._parse_showtimes"
    /\ \E reachable \in BOOLEAN :
          extracted' = SerpParseShowtimes(soup, start_date, reachable)
    /\ pc' = "parsed"
    /\ UNCHANGED <<aggVars, theaters, idx, log, movies, results, saved,
                   scraper, soup, time_str, parsed>>

NextSerp == CallSerpParseShowtimes

SpecSerp == InitSerp /\ [][NextSerp]_vars

(***************************************************************************)
(* GoogleFallbackScraper._text_based_extraction: the scan of the page's    *)
(* lines, one line a step.  soup holds the text lines of the page, idx the *)
(* position of the scan, parsed the pair (current_title, current_times)    *)
(* and extracted the list movies.                                          *)
(***************************************************************************)
\* Most text lines on a page.
MaxLines == 4

\* lines = [line.strip() for line in all_text.split('\n') if line.strip()]
PageLines(texts) ==
    LET kept == SelectSeq(texts, LAMBDA line : Strip(line) # <<>>)
    IN  [i \in DOMAIN kept |-> Strip(kept[i])]

\* time_pattern = re.compile(r'^(\d{1,2}:\d{2}\s*(AM|PM|am|pm))$')
IsTimeLine(line) ==
    /\ MatchesTimePattern(line, TRUE)
    /\ SubSeq(line, Len(line) - 1, Len(line))
         \in { <<"A","M">>, <<"P","M">>, <<"a","m">>, <<"p","m">> }

\* title_pattern = re.compile(r'^[A-Z][\w\s\':,\-!\.]{3,60}$')
IsTitleShaped(line) ==
    /\ Len(line) \in 4..61
    /\ line[1] \in Range(UpperCase)
    /\ \A i \in 2..Len(line) :
          line[i] \in Range(UpperCase) \cup Range(LowerCase) \cup Range(Digits)
                      \cup WhiteSpace \cup {"_", "'", ":", ",", "-", "!", "."}

SkipWords ==
    { <<"g","o","o","g","l","e">>, <<"s","e","a","r","c","h">>,
      <<"s","i","g","n"," ","i","n">>, <<"s","e","t","t","i","n","g","s">>,
      <<"t","o","o","l","s">>, <<"a","b","o","u","t">>,
      <<"p","r","i","v","a","c","y">>, <<"t","e","r","m","s">>,
      <<"f","e","e","d","b","a","c","k">>, <<"p","o","r","t","l","a","n","d">> }

\* any(skip in line.lower() for skip in [...])
HasSkipWord(line) == \E skip \in SkipWords : Contains(Lower(line), skip)

\* The same test that lets every title-shaped line through.
IsAcceptedTitleAnyWord(line) == IsTitleShaped(line)

\* elif title_pattern.match(line) and not any(skip in line.lower() ...)
IsAcceptedTitle(line) == IsTitleShaped(line) /\ ~HasSkipWord(line)

\* The text lines of a page as get_text gives them.
PageTexts ==
    { <<"D","u","n","e">>,
      <<"H","e","a","t">>,
      <<"A","b","o","u","t"," ","D","u","n","e">>,
      <<" ","7",":","0","5"," ","P","M"," ">>,
      <<"9",":","3","0","p","m">>,
      <<"U","p">>,
      <<" ">> }

InitScan ==
    /\ scraper = "fallback_google._text_based_extraction"
    /\ soup \in UNION { [1..n -> PageTexts] : n \in 0..MaxLines }
    /\ extracted = <<>>
    /\ time_str = None
    /\ parsed = [current_title |-> None, current_times |-> <<>>]
    /\ start_date \in {[year |-> 2024, month |-> 2, day |-> 10]}
    /\ num_days \in {7}
    /\ pc = "scan"
    /\ idx = 1
    /\ log = <<>>
    /\ all_movies = <<>>
    /\ movies_by_title = <<>>
    /\ catalogs = <<>>
    /\ clock = 0
    /\ theaters = <<>>
    /\ movies = <<>>
    /\ results = NoResults
    /\ saved = <<>>

\* if time_match: parsed = self.parse_time(line); if parsed: current_times.append(...)
ScanTimeLine ==
    /\ pc = "scan"
    /\ idx <= Len(PageLines(soup))
    /\ IsTimeLine(PageLines(soup)[idx])
    /\ parsed' = [parsed EXCEPT !.current_times =
                     IF ParseTime(PageLines(soup)[idx]) # <<>>
                     THEN Append(@, [time |-> ParseTime(PageLines(soup)[idx]),
                                     url |-> TheaterUrl("cinema21")])
                     ELSE @]
    /\ idx' = idx + 1
    /\ UNCHANGED <<aggVars, pc, theaters, log, movies, results, saved,
                   scraper, soup, extracted, time_str>>

\* elif title_pattern.match(line) and not any(...): the previous movie is
\* saved if it has times, then current_title = line; current_times = []
ScanTitleLine ==
    /\ pc = "scan"
    /\ idx <= Len(PageLines(soup))
    /\ ~IsTimeLine(PageLines(soup)[idx])
    /\ IsAcceptedTitle(PageLines(soup)[idx])
    /\ \E response \in SearchResponses :
          extracted' =
              IF parsed.current_title # None /\ parsed.current_times # <<>>
              THEN Append(extracted,
                          BuildMovieEntry(parsed.current_title[1], "cinema21",
                                          SearchTmdb(Some("key"), response),
                                          parsed.current_times))
              ELSE extracted
    /\ parsed' = [current_title |-> Some(PageLines(soup)[idx]), current_times |-> <<>>]
    /\ idx' = idx + 1
    /\ UNCHANGED <<aggVars, pc, theaters, log, movies, results, saved,
                   scraper, soup, time_str>>

\* A line that is neither a time nor an accepted title.
ScanOtherLine ==
    /\ pc = "scan"
    /\ idx <= Len(PageLines(soup))
    /\ ~IsTimeLine(PageLines(soup)[idx])
    /\ ~IsAcceptedTitle(PageLines(soup)[idx])
    /\ idx' = idx + 1
    /\ UNCHANGED <<aggVars, pc, theaters, log, movies, results, saved,
                   scraper, soup, extracted, time_str, parsed>>

\* After the loop: if current_title and current_times: movies.append(...)
FinishScan ==
    /\ pc = "scan"
    /\ idx > Len(PageLines(soup))
    /\ \E response \in SearchResponses :
          extracted' =
              IF parsed.current_title # None /\ parsed.current_times # <<>>
              THEN Append(extracted,
                          BuildMovieEntry(parsed.current_title[1], "cinema21",
                                          SearchTmdb(Some("key"), response),
                                          parsed.current_times))
              ELSE extracted
    /\ pc' = "scanned"
    /\ UNCHANGED <<aggVars, theaters, idx, log, movies, results, saved,
                   scraper, soup, time_str, parsed>>

NextScan ==
    \/ ScanTimeLine
    \/ ScanTitleLine
    \/ ScanOtherLine
    \/ FinishScan

SpecScan == InitScan /\ [][NextScan]_vars

(***************************************************************************)
(* ShowtimesComScraper._parse_showtimes: the walk over the children of a   *)
(* movie's div.ticketicons, one element a step.  soup holds the elements,  *)
(* idx the position of the walk, parsed the variable current_date and      *)
(* extracted the list showtimes.                                           *)
(***************************************************************************)
\* Most children of a div.ticketicons.
MaxElements == 4

\* ShowtimesComScraper._looks_like_date_label
LooksLikeDateLabel(text) ==
    LET lower == Lower(RStripColon(Strip(text)))
    IN  \E word \in { <<"t","o","d","a","y">>, <<"t","o","m","o","r","r","o","w">>,
                      <<"m","o","n">>, <<"t","u","e">>, <<"w","e","d">>, <<"t","h","u">>,
                      <<"f","r","i">>, <<"s","a","t">>, <<"s","u","n">> } :
           HasPrefix(lower, word)

\* ShowtimesComScraper._looks_like_time:
\* re.match(r'\d{1,2}:\d{2}\s*(am|pm|AM|PM)', text.strip())
LooksLikeTime(text) ==
    LET t == Strip(text)
    IN  \E h \in {1, 2}, blanks \in 0..Len(t) :
           /\ Len(t) >= h + 3 + blanks + 2
           /\ IsNumber(SubSeq(t, 1, h))
           /\ t[h + 1] = ":"
           /\ IsNumber(SubSeq(t, h + 2, h + 3))
           /\ \A i \in (h + 4)..(h + 3 + blanks) : t[i] \in WhiteSpace
           /\ SubSeq(t, h + 4 + blanks, h + 5 + blanks)
                \in { <<"a","m">>, <<"p","m">>, <<"A","M">>, <<"P","M">> }

\* The same with an unresolved label clearing the date.
CurrentDateOrNone(current_date, resolved) == resolved

\* if resolved: current_date = resolved
CurrentDateAfter(current_date, resolved) ==
    IF resolved # None THEN resolved ELSE current_date

\* ticket_url if ticket_url.startswith('http') else self.theater_url, with
\* ticket_url = el.get('href', self.theater_url)
TicketUrl(href) ==
    IF href # None /\ HasPrefix(href[1], <<"h","t","t","p">>) THEN href[1]
    ELSE TheaterUrl("cinema21")

\* A child of div.ticketicons: its tag name ("none" for a text node), the
\* text of the button (its own, or the one inside the link), the link's href.
TicketElement(name, text, href, has_button) ==
    [name |-> name, text |-> text, href |-> href, has_button |-> has_button]

TicketElements ==
    { TicketElement("button", text, None, TRUE) :
      text \in { <<"T","o","d","a","y">>,
                 <<"T","h","u",","," ","F","e","b"," ","1","2",":">>,
                 <<"M","o","n">>,
                 <<"F","e","b"," ","1","2">>,
                 <<"7",":","0","5","p","m">> } }
    \cup
    { TicketElement("a", <<"9",":","3","0"," ","P","M">>, href, TRUE) :
      href \in { Some(<<"h","t","t","p","s",":","/","/","t",".","e","x","a","m","p","l","e","/","1">>),
                 Some(<<"/","b","u","y">>) } }
    \cup
    { TicketElement("a", <<>>, None, FALSE), TicketElement("none", <<>>, None, FALSE) }

InitWalk ==
    /\ scraper = "showtimes_com._parse_showtimes"
    /\ soup \in UNION { [1..n -> TicketElements] : n \in 0..MaxElements }
    /\ extracted = <<>>
    /\ time_str = None
    /\ parsed = None
    /\ start_date \in {[year |-> 2024, month |-> 2, day |-> 10,
                        hour |-> 6, minute |-> 30, second |-> 0]}
    /\ num_days \in {7}
    /\ pc = "walk"
    /\ idx = 1
    /\ log = <<>>
    /\ all_movies = <<>>
    /\ movies_by_title = <<>>
    /\ catalogs = <<>>
    /\ clock = 0
    /\ theaters = <<>>
    /\ movies = <<>>
    /\ results = NoResults
    /\ saved = <<>>

\* if not hasattr(el, 'name') or el.name is None: continue (and any tag that
\* is neither a button nor a link).
SkipElement ==
    /\ pc = "walk"
    /\ idx <= Len(soup)
    /\ soup[idx].name \notin {"button", "a"}
    /\ idx' = idx + 1
    /\ UNCHANGED <<aggVars, pc, theaters, log, movies, results, saved,
                   scraper, soup, extracted, time_str, parsed>>

\* A button whose text looks like a date label.
DateLabelButton ==
    /\ pc = "walk"
    /\ idx <= Len(soup)
    /\ soup[idx].name = "button"
    /\ LooksLikeDateLabel(RStripColon(soup[idx].text))
    /\ parsed' = CurrentDateAfter(parsed,
                     ShowtimesResolveDate(RStripColon(soup[idx].text), start_date))
    /\ idx' = idx + 1
    /\ UNCHANGED <<aggVars, pc, theaters, log, movies, results, saved,
                   scraper, soup, extracted, time_str>>

\* elif current_date and self._looks_like_time(text): showtimes.append({...})
TimeButton ==
    /\ pc = "walk"
    /\ idx <= Len(soup)
    /\ soup[idx].name = "button"
    /\ ~LooksLikeDateLabel(RStripColon(soup[idx].text))
    /\ extracted' = IF parsed # None /\ LooksLikeTime(soup[idx].text)
                    THEN Append(extracted, [time |-> NormalizeTime(soup[idx].text),
                                            url |-> TheaterUrl("cinema21"),
                                            date |-> parsed[1]])
                    ELSE extracted
    /\ idx' = idx + 1
    /\ UNCHANGED <<aggVars, pc, theaters, log, movies, results, saved,
                   scraper, soup, time_str, parsed>>

\* elif el.name == 'a': the button inside the link
TicketLink ==
    /\ pc = "walk"
    /\ idx <= Len(soup)
    /\ soup[idx].name = "a"
    /\ extracted' = IF soup[idx].has_button /\ parsed # None /\ LooksLikeTime(soup[idx].text)
                    THEN Append(extracted, [time |-> NormalizeTime(soup[idx].text),
                                            url |-> TicketUrl(soup[idx].href),
                                            date |-> parsed[1]])
                    ELSE extracted
    /\ idx' = idx + 1
    /\ UNCHANGED <<aggVars, pc, theaters, log, movies, results, saved,
                   scraper, soup, time_str, parsed>>

\* return showtimes
ReturnShowtimes ==
    /\ pc = "walk"
    /\ idx > Len(soup)
    /\ pc' = "walked"
    /\ UNCHANGED <<aggVars, theaters, idx, log, movies, results, saved, extVars>>

NextWalk ==
    \/ SkipElement
    \/ DateLabelButton
    \/ TimeButton
    \/ TicketLink
    \/ ReturnShowtimes

SpecWalk == InitWalk /\ [][NextWalk]_vars

(***************************************************************************)
(* Properties of scrape_theater, checked under Spec.                       *)
(***************************************************************************)
\* The attempts logged for a theater, in order.
AttemptsOn(theater_id) == SelectSeq(log, LAMBDA e : e.theater = theater_id)

\* scrape_theater has returned for the i-th theater.
Returned(i) == i < idx \/ (i = idx /\ pc = "returned")

\* C10: for every theater, the primary strategy, when one is registered, is
\* the first attempt and the fallback the second; the fallback is attempted
\* only if there is no primary or the primary raised or returned an empty
\* list, and in each of these cases it has been attempted once scrape_theater
\* returns; a non-empty primary list is the value returned, with no fallback
\* attempt.
C10_PrimaryBeforeFallback ==
    \A i \in DOMAIN theaters :
        LET theater_id == theaters[i].id
            tried == AttemptsOn(theater_id)
            first_failed == tried # <<>> /\ tried[1].strategy = "primary"
                            /\ tried[1].outcome \in {"raised", "empty"}
            fallback_tried == \E k \in DOMAIN tried : tried[k].strategy = "fallback"
        IN  /\ Len(tried) <= 2
            /\ \A k \in DOMAIN tried :
                  tried[k].strategy = "primary" => HasPrimary(theater_id) /\ k = 1
            /\ HasPrimary(theater_id) /\ tried # <<>> => tried[1].strategy = "primary"
            /\ fallback_tried => ~HasPrimary(theater_id) \/ first_failed
            /\ Returned(i) =>
                  (fallback_tried <=> (~HasPrimary(theater_id) \/ first_failed))
            /\ tried # <<>> /\ tried[1].strategy = "primary" /\ tried[1].outcome = "movies" =>
                  /\ Len(tried) = 1
                  /\ tried[1].fetched # <<>>
                  /\ i = idx => pc = "returned" /\ movies = tried[1].fetched

\* C10's case: scrape_theater has returned the primary list of a second
\* theater without trying the fallback, after a first theater whose primary
\* returned nothing and whose fallback was tried.
C10_Witness ==
    /\ pc = "returned"
    /\ idx = 2
    /\ Len(log) = 3
    /\ log[1].strategy = "primary" /\ log[1].outcome = "empty"
    /\ log[2].strategy = "fallback"
    /\ log[3].strategy = "primary" /\ log[3].outcome = "movies"
    /\ movies = log[3].fetched
    /\ Len(movies) = 2

\* Every attempt logged for the i-th theater ended without a record.
AllFailed(i) ==
    \A k \in DOMAIN AttemptsOn(theaters[i].id) :
        AttemptsOn(theaters[i].id)[k].outcome \in {"raised", "empty"}

\* The index in theaters of the theater with this id.
PositionOf(theater_id) == CHOOSE i \in DOMAIN theaters : theaters[i].id = theater_id

\* C11: when every strategy tried on a theater raised or returned an empty
\* list, scrape_theater returns the empty list and main appends the theater's
\* name to the failed list; the loop then goes on: the attempts are logged in
\* the configured order of the theaters, every theater the loop has passed was
\* attempted (each strategy at most once), no theater beyond the current one
\* was, and aggregation is reached only after all of them.
C11_FailureIsolated ==
    /\ \A i \in DOMAIN theaters :
          /\ Returned(i) /\ AllFailed(i) =>
                /\ i = idx => movies = <<>>
                /\ i < idx => \E k \in DOMAIN results.failed :
                                  results.failed[k] = theaters[i].name
          /\ i < idx => AttemptsOn(theaters[i].id) # <<>>
          /\ i > idx => AttemptsOn(theaters[i].id) = <<>>
          /\ \A k, l \in DOMAIN AttemptsOn(theaters[i].id) :
                k # l => AttemptsOn(theaters[i].id)[k].strategy
                            # AttemptsOn(theaters[i].id)[l].strategy
    /\ \A k, l \in DOMAIN log :
          k < l => PositionOf(log[k].theater) <= PositionOf(log[l].theater)
    /\ pc \in {"save", "done"} => idx = Len(theaters) + 1

\* C11's case: the first theater failed in both strategies, its name is on
\* the failed list, and the second theater has been attempted and returned
\* records.
C11_Witness ==
    /\ pc = "returned"
    /\ idx = 2
    /\ Len(log) = 3
    /\ log[1].strategy = "primary" /\ log[1].outcome = "raised"
    /\ log[2].strategy = "fallback" /\ log[2].outcome = "empty"
    /\ log[3].theater = theaters[2].id
    /\ results.failed = <<theaters[1].name>>
    /\ movies # <<>>

\* C12: a run that got past configuration loading aggregates at most once,
\* only after the last theater, and saves at most once, the catalog it
\* aggregated; and it eventually has done both, whatever failed.
C12_AggregatesAndSavesOnce ==
    /\ [](/\ Len(catalogs) <= 1
          /\ Len(saved) <= 1
          /\ catalogs # <<>> => idx = Len(theaters) + 1
          /\ saved # <<>> => catalogs # <<>> /\ saved[1].showtimes = catalogs[1])
    /\ [](pc = "theaters" => <>(pc = "done" /\ Len(catalogs) = 1 /\ Len(saved) = 1))

\* C12's case: a run in which both theaters failed and nothing was collected
\* has saved its empty catalog.
C12_Witness ==
    /\ pc = "done"
    /\ Len(theaters) = 2
    /\ Len(results.failed) = 2
    /\ all_movies = <<>>
    /\ Len(saved) = 1
    /\ saved[1].showtimes.movies = <<>>

\* The theaters whose records a strategy returned.
ReturnedBy(strategy) ==
    { i \in DOMAIN theaters :
        \E k \in DOMAIN log : /\ log[k].theater = theaters[i].id
                              /\ log[k].strategy = strategy
                              /\ log[k].outcome = "movies" }

\* C13: at the end of the theater loop the 'primary' counter is the number of
\* theaters whose records the primary strategy returned, the 'fallback'
\* counter the number whose records the fallback returned, and the failed
\* list holds exactly the names of the theaters without a record.
C13_CountersBySource ==
    (pc = "theaters" /\ idx > Len(theaters)) =>
        /\ results.primary = Cardinality(ReturnedBy("primary"))
        /\ results.fallback = Cardinality(ReturnedBy("fallback"))
        /\ Len(results.failed)
             = Cardinality(DOMAIN theaters \ (ReturnedBy("primary") \cup ReturnedBy("fallback")))
        /\ \A i \in DOMAIN theaters :
              (i \notin ReturnedBy("primary") \cup ReturnedBy("fallback"))
                  <=> (\E k \in DOMAIN results.failed :
                          results.failed[k] = theaters[i].name)

\* The page loads fetch_showtimes has made.
Loads == SelectSeq(log, LAMBDA e : e.step = "load")

\* C14: whenever fetch_showtimes has ended and every page load it made
\* failed (network error, timeout or HTTP error status), it has returned the
\* empty list and raised nothing.
C14_FailedFetchGivesEmpty ==
    (/\ pc = "fetched"
     /\ Loads # <<>>
     /\ \A k \in DOMAIN Loads : Loads[k].outcome # "ok")
        => extracted = [raised |-> FALSE, movies |-> <<>>]

\* The tactics run, in order, by name.
TacticNames == [ k \in DOMAIN TacticsRun |-> TacticsRun[k].tactic ]

\* What the chain jsonld, tribe_events, generic is to return on a page.
ClintonExpected(page) ==
    IF page["jsonld"] # <<>> THEN TacticResult("clinton", page, "jsonld")
    ELSE IF page["tribe_events"] # <<>> THEN TacticResult("clinton", page, "tribe_events")
    ELSE TacticResult("clinton", page, "generic")

\* C15: on a loaded page ClintonScraper.fetch_showtimes runs JSON-LD, then
\* the events calendar, then heading mining; a tactic runs only after every
\* earlier one returned an empty list; and the list returned is that of the
\* first tactic that found something, or the last tactic's when none did.
C15_ClintonTacticOrder ==
    (scraper = "clinton" /\ soup # None) =>
        /\ TacticNames \in { <<>>, <<"jsonld">>, <<"jsonld", "tribe_events">>,
                             <<"jsonld", "tribe_events", "generic">> }
        /\ \A k \in DOMAIN TacticsRun :
              /\ TacticsRun[k].result = TacticResult("clinton", soup, TacticsRun[k].tactic)
              /\ \A j \in 1..(k - 1) : TacticsRun[j].result = <<>>
        /\ pc = "fetched" =>
              /\ extracted = [raised |-> FALSE, movies |-> ClintonExpected(soup)]
              /\ TacticsRun[Len(TacticsRun)].result = extracted.movies
              /\ extracted.movies = <<>> => Len(TacticsRun) = 3

\* C15's case: the first two tactics found nothing and the third did; its
\* list was returned.
C15_Witness ==
    /\ scraper = "clinton"
    /\ pc = "fetched"
    /\ Len(TacticsRun) = 3
    /\ TacticsRun[1].result = <<>>
    /\ TacticsRun[2].result = <<>>
    /\ TacticsRun[3].tactic = "generic"
    /\ TacticsRun[3].result # <<>>
    /\ extracted.movies = TacticsRun[3].result
    /\ soup["jsonld"] = <<>>

\* The ways of writing a number below 100: plainly, or in two digits.
NumberTexts(n, widths) ==
    { IF w = 2 THEN Pad2(n) ELSE IntToStr(n) : w \in widths }

\* "h:mm AM/PM" with no leading zero on the hour, for an hour of the day.
Canonical(hour, minute) ==
    IntToStr(IF hour % 12 = 0 THEN 12 ELSE hour % 12) \o <<":">> \o Pad2(minute)
        \o (IF hour < 12 THEN <<" ","A","M">> ELSE <<" ","P","M">>)

\* The numbers of a range, each with the ways of writing it.
Written(numbers, widths) ==
    UNION { { <<n, text>> : text \in NumberTexts(n, widths) } : n \in numbers }

StartsWith(text, prefix) ==
    Len(prefix) <= Len(text) /\ SubSeq(text, 1, Len(prefix)) = prefix

\* The canonical forms of the instants that text denotes when read as a
\* 12-hour time: an hour 1-12 (with or without a leading zero), a colon, a
\* minute written with one of these widths, one of these blanks, and am or pm
\* in any letter case.
TwelveHourReadings(text, minute_widths, blanks) ==
    UNION { UNION {
        { Canonical((IF h[1] = 12 THEN 0 ELSE h[1])
                        + (IF tail[2] \in {"p","P"} THEN 12 ELSE 0), m[1]) :
            tail \in { t \in blanks \X {"a","A","p","P"} \X {"m","M"} :
                         text = h[2] \o <<":">> \o m[2] \o t[1] \o <<t[2], t[3]>> } } :
        m \in { w \in Written(0..59, minute_widths) :
                  StartsWith(text, h[2] \o <<":">> \o w[2]) } } :
        h \in { w \in Written(1..12, {1, 2}) : StartsWith(text, w[2] \o <<":">>) } }

\* The canonical forms of the instants that text denotes when read as a
\* 24-hour time.
TwentyFourHourReadings(text, minute_widths) ==
    UNION {
        { Canonical(h[1], m[1]) :
            m \in { w \in Written(0..59, minute_widths) :
                      text = h[2] \o <<":">> \o w[2] } } :
        h \in { w \in Written(0..23, {1, 2}) : StartsWith(text, w[2] \o <<":">>) } }

\* The readings of the inputs C20 names: h:mm with am/pm after no or one
\* space, or HH:mm.
ClaimedReadings(text) ==
    TwelveHourReadings(text, {2}, { <<>>, <<" ">> }) \cup TwentyFourHourReadings(text, {2})

StrptimeReadings(text) ==
    TwelveHourReadings(text, {1, 2}, { <<>>, <<" ">>, <<" "," ">> })
        \cup TwentyFourHourReadings(text, {1, 2})

RECURSIVE ShowingsOfRecords(_)
ShowingsOfRecords(records) ==
    IF records = <<>> THEN <<>>
    ELSE Head(records).showtimes \o ShowingsOfRecords(Tail(records))

WindowShowings ==
    IF scraper = "cinemagic" THEN extracted ELSE ShowingsOfRecords(extracted)

\* The number of the day (year, month, day) in the count of days that runs
\* through the Gregorian calendar.
DayNumber(year, month, day) ==
    LET a == (14 - month) \div 12
        y == year + 4800 - a
        m == month + 12 * a - 3
    IN  day + ((153 * m + 2) \div 5) + 365 * y + (y \div 4) - (y \div 100) + (y \div 400)

\* str is a date YYYY-MM-DD.
IsIsoDate(str) ==
    /\ Len(str) = 10
    /\ str[5] = "-" /\ str[8] = "-"
    /\ \A i \in {1, 2, 3, 4, 6, 7, 9, 10} : str[i] \in Range(Digits)
    /\ DigitsValue(SubSeq(str, 6, 7)) \in 1..12
    /\ DigitsValue(SubSeq(str, 9, 10)) \in 1..31

DayNumberOf(str) ==
    DayNumber(DigitsValue(SubSeq(str, 1, 4)), DigitsValue(SubSeq(str, 6, 7)),
              DigitsValue(SubSeq(str, 9, 10)))

\* C16: every showing a structured-data tactic (Clinton JSON-LD, Laurelhurst
\* gbl_movies schedule, Cinemagic showtime text) emits has a date d with
\* start_date <= d < start_date + num_days; entries dated before the start
\* date or on/after start_date + num_days are never emitted.
C16_ShowingsInsideWindow ==
    pc = "windowed" =>
        \A i \in DOMAIN WindowShowings :
            LET first == DayNumber(start_date.year, start_date.month, start_date.day)
            IN  /\ "date" \in DOMAIN WindowShowings[i]
                /\ IsIsoDate(WindowShowings[i].date)
                /\ first <= DayNumberOf(WindowShowings[i].date)
                /\ DayNumberOf(WindowShowings[i].date) < first + num_days

\* A week from 29 December: the event of 5 January (the day the window ends)
\* is dropped and the event of 4 January is emitted.
C16_Witness ==
    /\ pc = "windowed"
    /\ scraper = "clinton"
    /\ start_date.month = 12
    /\ num_days = 7
    /\ Len(soup) = 2
    /\ soup[1].type = "Event"
    /\ soup[1].startDate = <<"2","0","2","5","-","0","1","-","0","5","T","1","9",":","0","5",":","0","0","Z">>
    /\ soup[2].type = "Event"
    /\ soup[2].startDate = <<"2","0","2","5","-","0","1","-","0","4">>
    /\ Len(extracted) = 1
    /\ extracted[1].showtimes =
          << [time |-> <<"1","2",":","0","0"," ","A","M">>,
              url |-> TheaterUrl("clinton"),
              date |-> <<"2","0","2","5","-","0","1","-","0","4">>] >>

\* The records a pass emitted under a title.
RecordsTitled(title) == SelectSeq(extracted, LAMBDA r : r.title = title)

\* The heading passes that emit a title without a time.
SentinelPasses ==
    { "cinema21._extract_from_rendered", "cinemagic.fetch_showtimes", "bagdad.fetch_showtimes" }

\* Heading i of the page is title-shaped for every pass, the only heading of
\* its title, and no time text is near it or anywhere on the page.
TitleWithoutTime(i) ==
    LET h == soup.headings[i]
    IN  /\ Len(h.text) \in 3..79
        /\ Lower(h.text) \notin Cinema21Denylist \cup CinemagicDenylist
        /\ \A j \in DOMAIN soup.headings : j # i => Lower(soup.headings[j].text) # Lower(h.text)
        /\ h.near = <<>>
        /\ soup.matches = <<>>
        /\ soup.lines = <<>>

\* C17: in heading mining a title for which no time was found is emitted if
\* and only if its parent holds an image or a paragraph, and then with exactly
\* one showing, of time "See website", a url, and the start date as its date;
\* a title with neither times nor context is not emitted.
C17_SentinelOnlyWithContext ==
    (pc = "mined" /\ scraper \in SentinelPasses) =>
        \A i \in DOMAIN soup.headings :
            TitleWithoutTime(i) =>
                LET emitted == RecordsTitled(soup.headings[i].text)
                IN  /\ (emitted # <<>>) <=> (soup.headings[i].context \in {"img", "p"})
                    /\ \A k \in DOMAIN emitted :
                          /\ Len(emitted[k].showtimes) = 1
                          /\ DOMAIN emitted[k].showtimes[1] = {"time", "url", "date"}
                          /\ emitted[k].showtimes[1].time = SeeWebsite
                          /\ emitted[k].showtimes[1].date = Strftime(start_date)

\* The heading and line passes whose titles are filtered.
TitleMiningPasses ==
    { "cinema21._extract_from_rendered", "bagdad._broad_search", "clinton._parse_generic" }

\* The phrases a pass names as navigation text.
DenylistOf(pass) ==
    IF pass = "cinema21._extract_from_rendered" THEN Cinema21Denylist ELSE {}

\* C18: the records one heading or line mining pass emits have titles of
\* length 2 to 100, none a denylisted navigation phrase, no two equal
\* ignoring case.
C18_MinedTitlesDistinct ==
    (pc = "mined" /\ scraper \in TitleMiningPasses) =>
        /\ \A i \in DOMAIN extracted :
              /\ Len(extracted[i].title) \in 2..100
              /\ Lower(extracted[i].title) \notin DenylistOf(scraper)
        /\ \A i, j \in DOMAIN extracted :
              i # j => Lower(extracted[i].title) # Lower(extracted[j].title)

\* "H:MM AM/PM" with no leading zero on the hour.
IsCanonicalTime(text) ==
    \E hour \in 0..23, minute \in 0..59 : text = Canonical(hour, minute)

\* C19: every showing every extractor emits has a time in the canonical
\* 12-hour form "H:MM AM/PM" without a leading zero, or the text "See website".
C19_TimesCanonicalOrSentinel ==
    pc = "mined" =>
        \A i \in DOMAIN extracted : \A k \in DOMAIN extracted[i].showtimes :
            \/ extracted[i].showtimes[k].time = SeeWebsite
            \/ IsCanonicalTime(extracted[i].showtimes[k].time)

\* The text ignoring case.
IsWord(text, word) == Lower(text) = word

\* The position (Monday 0 .. Sunday 6) of the weekday whose three-letter
\* abbreviation the label starts with, or none.
LabelledWeekdays(label) ==
    { k \in 0..6 :
        /\ Len(label) >= 3
        /\ Lower(SubSeq(label, 1, 3)) =
             << <<"m","o","n">>, <<"t","u","e">>, <<"w","e","d">>, <<"t","h","u">>,
                <<"f","r","i">>, <<"s","a","t">>, <<"s","u","n">> >>[k + 1] }

\* Neither text says today or tomorrow, starts with a weekday, or holds a
\* day of the month.
Uninterpretable(label, hint) ==
    /\ \A text \in {label, hint} :
          /\ ~Contains(Lower(text), <<"t","o","d","a","y">>)
          /\ ~Contains(Lower(text), <<"t","o","m","o","r","r","o","w">>)
          /\ \A i \in DOMAIN text : text[i] \notin Range(Digits)
    /\ LabelledWeekdays(label) = {}

\* The day number of the reference date.
ReferenceDay == DayNumber(start_date.year, start_date.month, start_date.day)

C22_NextWeekday ==
    (/\ pc = "resolved"
     /\ scraper = "serpapi._resolve_date"
     /\ soup.date_hint = <<>>
     /\ LabelledWeekdays(soup.day_label) # {}) =>
        /\ parsed # None /\ IsIsoDate(parsed[1])
        /\ DayNumberOf(parsed[1]) - ReferenceDay \in 1..7
        \* 1 January 2024 was a Monday.
        /\ (DayNumberOf(parsed[1]) - DayNumber(2024, 1, 1)) % 7
              \in LabelledWeekdays(soup.day_label)

\* Thursday 29 February 2024 and the label "Thursday": 7 March.
C22_Witness ==
    /\ pc = "resolved"
    /\ scraper = "serpapi._resolve_date"
    /\ soup.day_label = <<"T","h","u","r","s","d","a","y">>
    /\ soup.date_hint = <<>>
    /\ start_date.month = 2 /\ start_date.day = 29
    /\ parsed = Some(<<"2","0","2","4","-","0","3","-","0","7">>)

\* The text a resolver reads a month and day from, and its reading.
HintText == IF scraper = "serpapi._resolve_date" THEN soup.date_hint ELSE soup.day_label

HintMonthDay == FirstDateFormat(Strip(HintText), <<"%b %d", "%B %d">>)

\* C23: with a label that is not today or tomorrow and a hint that parses as
\* a month and day, the resolver returns that month and day in the reference
\* year, or in the following year when the month is more than one month
\* before the reference month.
C23_MonthDayWithYearRoll ==
    (/\ pc = "resolved"
     /\ ~IsWord(soup.day_label, <<"t","o","d","a","y">>)
     /\ ~IsWord(soup.day_label, <<"t","o","m","o","r","r","o","w">>)
     /\ HintMonthDay # None) =>
        /\ parsed # None
        /\ IsIsoDateOf(parsed[1],
                       [year |-> IF HintMonthDay[1].month < start_date.month - 1
                                 THEN start_date.year + 1 ELSE start_date.year,
                        month |-> HintMonthDay[1].month,
                        day |-> HintMonthDay[1].day])

\* C24: when the enrichment lookup yields nothing (no credential, a failed
\* request, no candidate) it returns None, and the record the extractor
\* builds keeps the extracted title, has an empty description and no poster;
\* a record has a poster only when the provider's poster was fetched.
C24_EnrichmentMiss ==
    /\ \A i \in DOMAIN log :
          (log[i].step = "search_tmdb" /\ log[i].outcome \in {"no key", "error", "no result"})
              => log[i].returned = None
    /\ pc = "built" =>
          /\ parsed = None =>
                /\ extracted.title = soup.title
                /\ extracted.description = <<>>
                /\ extracted.poster = None
          /\ extracted.poster # None =>
                \E i \in DOMAIN log :
                    log[i].step = "download_poster" /\ log[i].outcome = "fetched"

(***************************************************************************)
(* Properties of download_poster, checked under SpecPoster.                *)
(***************************************************************************)
PosterFileKept ==
    \A slug \in MovieSlugs : soup[slug] # None => soup'[slug] = soup[slug]

SuccessfulCallsReturnPath ==
    \A call \in 1..MaxCallers :
        parsed[call].returned # None =>
            parsed[call].returned = Some(PosterPath(parsed[call].movie_slug))

\* C25: once the poster file of a slug exists no later download_poster call
\* changes its content, whether the calls run one after another or interleave
\* between the existence check and the write, and every successful call
\* returns "posters/<slug>.jpg".
C25_PosterCachingIdempotent ==
    [][pc = "download_poster" => (PosterFileKept /\ SuccessfulCallsReturnPath')]_vars

(***************************************************************************)
(* Properties of Cinema21's nearby-time search, checked under SpecMine.    *)
(***************************************************************************)
\* The normalizer can parse the text: one of parse_time's formats reads it.
TimeParses(match) == FirstFormat(Strip(match), << "space", "none", "24h" >>, None) # None

\* Heading i of the Cinema21 page is title-shaped and the only heading of its
\* title, so that the showings found near it are those of its record.
OwnTitle(i) ==
    LET h == soup.headings[i]
    IN  /\ Len(h.text) \in 2..100
        /\ Lower(h.text) \notin Cinema21Denylist
        /\ \A j \in DOMAIN soup.headings : j # i => Lower(soup.headings[j].text) # Lower(h.text)

\* The record of heading i has a showing whose time is the parsed match.
IncludedAsShowing(i, match) ==
    \E k \in DOMAIN extracted :
        /\ extracted[k].title = soup.headings[i].text
        /\ \E s \in DOMAIN extracted[k].showtimes :
              extracted[k].showtimes[s].time = ParseTime(match)

\* C26: in Cinema21's nearby-time search a string matched by the time pattern
\* is included as a showing if and only if the normalizer can parse it; a page
\* time already in canonical form ("7:05 PM") gives a showing with that time.
C26_MatchedTimeIncludedIffParsed ==
    (pc = "mined" /\ scraper = "cinema21._extract_from_rendered") =>
        \A i \in DOMAIN soup.headings :
            OwnTitle(i) =>
                \A m \in DOMAIN soup.headings[i].near :
                    TimeParses(soup.headings[i].near[m])
                        <=> IncludedAsShowing(i, soup.headings[i].near[m])

(***************************************************************************)
(* Properties of CinemagicScraper._build_showtimes, checked under          *)
(* SpecWindow.                                                             *)
(***************************************************************************)
\* The calendar dates the listed month and day can mean for a run that starts
\* at start_date: that day in the start year or in the year after it.
ListedDates(date_str) ==
    { StrptimeMonthDay(date_str, year)[1] :
      year \in { y \in {start_date.year, start_date.year + 1} :
                 StrptimeMonthDay(date_str, y) # None } }

\* C30: _build_showtimes keeps every listed showing whose calendar date lies
\* in [start_date, start_date + num_days), also when the window crosses
\* December 31: from December 29 with num_days 7 a listed "Jan 4" showing is
\* emitted with a date in January of the following year.
C30_WindowAcrossNewYear ==
    (pc = "windowed" /\ scraper = "cinemagic") =>
        \A i \in DOMAIN soup :
            \A d \in ListedDates(soup[i][2]) :
                InWindow(d, start_date, PlusDays(start_date, num_days)) =>
                    \E k \in DOMAIN extracted :
                        /\ extracted[k].date = Strftime(d)
                        /\ extracted[k].time = ParseTime(soup[i][3])

(***************************************************************************)
(* Properties of SerpAPIScraper._parse_showtimes, checked under SpecSerp.  *)
(***************************************************************************)
\* The times (normalized) that day block b of the response lists for the
\* cleaned title t, compared ignoring case: in its movie entries and in the
\* entries of this theater.
BlockTimes(b, t) ==
    LET day_block == soup.showtimes[b]
        listed == { i \in DOMAIN day_block.movies :
                    Lower(CleanTitle(day_block.movies[i].name)) = t }
        ours == { i \in DOMAIN day_block.theaters :
                  IsOurTheater(day_block.theaters[i].name,
                               <<"C","i","n","e","m","a"," ","2","1">>,
                               <<"c","i","n","e","m","a","2","1">>) }
    IN  UNION { UNION { { NormalizeTime(time) :
                          time \in Range(day_block.movies[i].showing[s].time) } :
                        s \in DOMAIN day_block.movies[i].showing } :
                i \in listed }
        \cup
        UNION { UNION { { NormalizeTime(time) :
                          time \in Range(day_block.theaters[i].showing[u].time) } :
                        u \in { v \in DOMAIN day_block.theaters[i].showing :
                                Lower(CleanTitle(day_block.theaters[i].showing[v].name)) = t } } :
                i \in ours }

\* The first day block that lists a time for the title.
FirstBlockWithTimes(t) ==
    CHOOSE b \in DOMAIN soup.showtimes :
        /\ BlockTimes(b, t) # {}
        /\ \A a \in 1..(b - 1) : BlockTimes(a, t) = {}

\* C27: one _parse_showtimes pass over a response with day blocks emits at
\* most one record per cleaned title (ignoring case), and the record carries
\* only showings of the first day block in which the title has a time: the
\* title's times of later day blocks are in no record.
C27_OneRecordFirstBlockOnly ==
    (pc = "parsed" /\ soup.showtimes # <<>>) =>
        /\ \A i, j \in DOMAIN extracted :
              Lower(extracted[i].title) = Lower(extracted[j].title) => i = j
        /\ \A i \in DOMAIN extracted :
              LET t == Lower(extracted[i].title)
              IN  /\ \E b \in DOMAIN soup.showtimes : BlockTimes(b, t) # {}
                  /\ \A s \in DOMAIN extracted[i].showtimes :
                        /\ extracted[i].showtimes[s].date =
                              SerpResolveDate(soup.showtimes[FirstBlockWithTimes(t)].day,
                                              soup.showtimes[FirstBlockWithTimes(t)].date,
                                              start_date)
                        /\ extracted[i].showtimes[s].time \in
                              BlockTimes(FirstBlockWithTimes(t), t)

\* "Dune" is listed today at 7:05 PM and tomorrow again: one record, with
\* today's showing only.
C27_Witness ==
    /\ pc = "parsed"
    /\ Len(soup.showtimes) = 2
    /\ BlockTimes(1, <<"d","u","n","e">>) # {}
    /\ BlockTimes(2, <<"d","u","n","e">>) # {}
    /\ Len(extracted) = 1
    /\ Lower(extracted[1].title) = <<"d","u","n","e">>
    /\ Len(extracted[1].showtimes) = 1
    /\ extracted[1].showtimes[1].date = Strftime(start_date)

(***************************************************************************)
(* Properties of _text_based_extraction, checked under SpecScan.           *)
(***************************************************************************)
\* The positions of the accepted title lines of the page: title-shaped,
\* without a skip word.
TitlePositions ==
    { i \in DOMAIN PageLines(soup) : /\ IsTitleShaped(PageLines(soup)[i])
                                     /\ ~HasSkipWord(PageLines(soup)[i])
                                     /\ ~IsTimeLine(PageLines(soup)[i]) }

\* The time lines after the title line at position i and before the next
\* accepted title line.
TimePositionsAfter(i) ==
    { j \in DOMAIN PageLines(soup) :
        /\ j > i
        /\ IsTimeLine(PageLines(soup)[j])
        /\ \A k \in TitlePositions : ~(i < k /\ k < j) }

\* The members of a set of positions in page order.
RECURSIVE InPageOrder(_)
InPageOrder(positions) ==
    IF positions = {} THEN <<>>
    ELSE LET first == CHOOSE p \in positions : \A q \in positions : p <= q
         IN  <<first>> \o InPageOrder(positions \ {first})

\* The title lines that have a time line of their own, in page order.
TitlesWithTimes == InPageOrder({ i \in TitlePositions : TimePositionsAfter(i) # {} })

\* C28: the records _text_based_extraction emits are those of the accepted
\* title lines followed by a time line before the next accepted title line,
\* in page order, and the showings of each are exactly those time lines in page
\* order: time lines before the first accepted title are in no record, a title
\* without a time line is not emitted, and a title-shaped line with a skip
\* word neither starts a record nor ends the current one.
C28_RecordsAreTitleSegments ==
    (pc = "scanned" /\ scraper = "fallback_google._text_based_extraction") =>
        /\ Len(extracted) = Len(TitlesWithTimes)
        /\ \A k \in DOMAIN extracted :
              LET times == InPageOrder(TimePositionsAfter(TitlesWithTimes[k]))
              IN  /\ extracted[k].title = PageLines(soup)[TitlesWithTimes[k]]
                  /\ Len(extracted[k].showtimes) = Len(times)
                  /\ \A s \in DOMAIN times :
                        extracted[k].showtimes[s].time = ParseTime(PageLines(soup)[times[s]])

\* A time line, the title "Dune", a skipped title-shaped line, a time line:
\* one record, "Dune" with the last time line only.
C28_Witness ==
    /\ pc = "scanned"
    /\ soup = << <<"9",":","3","0","p","m">>, <<"D","u","n","e">>,
                 <<"A","b","o","u","t"," ","D","u","n","e">>,
                 <<" ","7",":","0","5"," ","P","M"," ">> >>
    /\ Len(extracted) = 1
    /\ extracted[1].title = <<"D","u","n","e">>
    /\ Len(extracted[1].showtimes) = 1
    /\ extracted[1].showtimes[1].time = <<"7",":","0","5"," ","P","M">>

(***************************************************************************)
(* Properties of ShowtimesComScraper._parse_showtimes, checked under       *)
(* SpecWalk.                                                               *)
(***************************************************************************)
\* The date labels of the walk that could be resolved.
ResolvedLabels ==
    { i \in DOMAIN soup : /\ soup[i].name = "button"
                          /\ LooksLikeDateLabel(soup[i].text)
                          /\ ShowtimesResolveDate(soup[i].text, start_date) # None }

\* The time buttons of the walk, alone or inside a link.
TimeButtons ==
    { i \in DOMAIN soup : /\ \/ soup[i].name = "button" /\ ~LooksLikeDateLabel(soup[i].text)
                             \/ soup[i].name = "a" /\ soup[i].has_button
                          /\ LooksLikeTime(soup[i].text) }

\* The nearest resolved date label before position i.
NearestLabel(i) ==
    CHOOSE l \in ResolvedLabels : l < i /\ \A m \in ResolvedLabels : m < i => m <= l

\* C29: the showings _parse_showtimes emits are the time buttons that follow
\* a resolved date label, in order, each with the date of the nearest
\* preceding date label that could be resolved: a time button before any
\* resolved label is not emitted, and a date-like label that cannot be
\* resolved leaves the times after it under the previous label's date.
C29_ShowingsUnderNearestResolvedLabel ==
    (pc = "walked" /\ scraper = "showtimes_com._parse_showtimes") =>
        LET dated == InPageOrder({ i \in TimeButtons : \E l \in ResolvedLabels : l < i })
        IN  /\ Len(extracted) = Len(dated)
            /\ \A k \in DOMAIN dated :
                  /\ extracted[k].time = NormalizeTime(soup[dated[k]].text)
                  /\ Some(extracted[k].date) =
                        ShowtimesResolveDate(soup[NearestLabel(dated[k])].text, start_date)

\* A time button, "Thu, Feb 12:", the unresolvable label "Mon", a time button:
\* one showing, dated 12 February.
C29_Witness ==
    /\ pc = "walked"
    /\ Len(soup) = 4
    /\ soup[1].text = <<"7",":","0","5","p","m">>
    /\ soup[2].text = <<"T","h","u",","," ","F","e","b"," ","1","2",":">>
    /\ soup[3].text = <<"M","o","n">>
    /\ soup[4].text = <<"7",":","0","5","p","m">>
    /\ Len(extracted) = 1
    /\ extracted[1].time = <<"7",":","0","5"," ","P","M">>
    /\ extracted[1].date = <<"2","0","2","4","-","0","2","-","1","2">>

====
